---------------------------- MODULE Spec2Model ----------------------------
(***************************************************************************)
(* A model of the signal-comparison code of spm-potentiation:              *)
(*   - shape_accomodation.py   match_rows, match_cols, increase_cols       *)
(*   - misc/spm_interface.py   SPMInterface: compare, export_tcurve,       *)
(*                             export_tparams, reshape_data                *)
(*   - data_preprocessing.py   _remove_spm_significance_from_filter_artefact*)
(*   - tmp/spm_preprocessing.py fix_false_spm_significance                 *)
(*   - spm_analysis.py         the batch drivers and _perform_spm_analysis *)
(*                                                                         *)
(* Numbers are exact rationals <<n, d>> in lowest terms (d > 0): numpy's   *)
(* and pandas' mean, sum and difference are modelled as the mathematical   *)
(* operations, IEEE rounding is not modelled.                              *)
(* An ensemble (a 2D numpy array or a DataFrame) is a record               *)
(*   [rows, cols, v] with v[i][j] the value at row i, column j (1-based).  *)
(***************************************************************************)
EXTENDS Integers, Sequences, FiniteSets, TLC

VARIABLES
    pre_data,   \* the pre-exercise ensemble (the object's field / the caller's array)
    post_data,  \* the post-exercise ensemble (the object's field / the caller's array)
    pre_in,     \* pre_data as it was when the last operation was called
    post_in,    \* post_data as it was when the last operation was called
    ret,        \* what the last operation returned or raised
    out,        \* what the last handler did: statistic calls, plots, files, messages;
                \* for the functions that write to disk, the file system
    batch,      \* the state of a batch run of spm_analysis.py; for a conversion, the
                \* sheet and the arguments it is called with
    spm_ti      \* the inference object (alpha, zstar, clusters) being parameterized

vars == <<pre_data, post_data, pre_in, post_in, ret, out, batch, spm_ti>>

---------------------------------------------------------------------------
(* Bounds of the model *)

MaxRows == 2     \* rows of an ensemble
MaxCols == 3     \* columns of an ensemble passed to a function directly
FileCols == 2    \* columns of an array the interface loaded from a file
SignalRows == 3  \* rows of an ensemble passed to the artefact correction
SignalCols == 2  \* columns of an ensemble passed to the artefact correction
MaxPairs == 3    \* pre/post file pairs of a batch run
ContinuumLen == 3  \* time samples of a test-statistic continuum
MaxCalls == 2    \* calls of the parameterizer on one inference object
Precision == 4   \* significand bits of the floating-point numbers

---------------------------------------------------------------------------
(* Exact rational arithmetic *)

Abs(x) == IF x < 0 THEN -x ELSE x

RECURSIVE GCD(_, _)
GCD(a, b) == IF b = 0 THEN a ELSE GCD(b, a % b)

\* The result of 0/0 (numpy's nan, the mean of no values): every sum, product and
\* quotient with it is NaN again and every comparison with it is false.
NaN == <<0, 0>>

Rat(n, d) ==
    IF d = 0 THEN NaN
    ELSE LET s == IF d < 0 THEN -1 ELSE 1
             g == GCD(Abs(n), Abs(d))
         IN  <<(s * n) \div g, (s * d) \div g>>

Zero == <<0, 1>>
FromInt(n) == <<n, 1>>
RAdd(a, b) == Rat(a[1] * b[2] + b[1] * a[2], a[2] * b[2])
RSub(a, b) == Rat(a[1] * b[2] - b[1] * a[2], a[2] * b[2])
RMul(a, b) == Rat(a[1] * b[1], a[2] * b[2])
RDivInt(a, n) == Rat(a[1], a[2] * n)
RAbs(a) == <<Abs(a[1]), a[2]>>
RLt(a, b) == a[2] # 0 /\ b[2] # 0 /\ a[1] * b[2] < b[1] * a[2]
RLe(a, b) == a[2] # 0 /\ b[2] # 0 /\ a[1] * b[2] <= b[1] * a[2]

RECURSIVE RSum(_)
RSum(s) == IF Len(s) = 0 THEN Zero ELSE RAdd(Head(s), RSum(Tail(s)))

\* numpy's mean of a 1D array (nan for an empty one)
RMean(s) == RDivInt(RSum(s), Len(s))

Min(a, b) == IF a < b THEN a ELSE b
Max(a, b) == IF a > b THEN a ELSE b

---------------------------------------------------------------------------
(* Floating-point arithmetic: every operation returns the exact result rounded to the *)
(* nearest number of Precision significand bits, ties to even (the exponent is not   *)
(* bounded).                                                                         *)

RECURSIVE Pow2(_)
Pow2(k) == IF k <= 0 THEN 1 ELSE 2 * Pow2(k - 1)

\* The least number of Precision + 1 bits
Radix == Pow2(Precision)

\* sign * m * 2^e
Scaled(sign, m, e) ==
    IF e >= 0 THEN <<sign * m * Pow2(e), 1>> ELSE Rat(sign * m, Pow2(-e))

\* sign * (a/b) * 2^e rounded: a/b is scaled by powers of two into [Radix/2, Radix) and
\* then rounded to the nearest integer, a tie to the even one
RECURSIVE Rounded(_, _, _, _)
Rounded(sign, a, b, e) ==
    IF a >= b * Radix THEN Rounded(sign, a, 2 * b, e + 1)
    ELSE IF 2 * a < b * Radix THEN Rounded(sign, 2 * a, b, e - 1)
    ELSE IF 2 * (a % b) > b \/ (2 * (a % b) = b /\ (a \div b) % 2 = 1)
    THEN Scaled(sign, (a \div b) + 1, e)
    ELSE Scaled(sign, a \div b, e)

\* A number n / 2^k whose n has at most Precision bits is a floating-point number
Representable(x) == x[1] < Radix /\ -x[1] < Radix /\ (Radix * Radix) % x[2] = 0

Fl(x) ==
    IF x[2] = 0 \/ x[1] = 0 THEN x
    ELSE IF Representable(x) THEN x
    ELSE Rounded(IF x[1] < 0 THEN -1 ELSE 1, Abs(x[1]), x[2], 0)

FAdd(a, b) == Fl(RAdd(a, b))
FSub(a, b) == Fl(RSub(a, b))
FMul(a, b) == Fl(RMul(a, b))

\* The sum of a 1D array, accumulated from its first element on
RECURSIVE FSumTo(_, _)
FSumTo(s, n) == IF n = 0 THEN Zero ELSE FAdd(FSumTo(s, n - 1), s[n])

\* The mean of a 1D array: its sum divided by its length (nan for an empty one)
FMean(s) == Fl(RDivInt(FSumTo(s, Len(s)), Len(s)))

---------------------------------------------------------------------------
(* Ensembles *)

Ensemble(r, c, f(_, _)) ==
    [rows |-> r, cols |-> c, v |-> [i \in 1..r |-> [j \in 1..c |-> f(i, j)]]]

\* np.zeros(shape=(r, c))
Zeros(r, c) == LET z(i, j) == Zero IN Ensemble(r, c, z)

\* data[0:n, :]
HeadRows(data, n) ==
    LET f(i, j) == data.v[i][j] IN Ensemble(Min(Max(n, 0), data.rows), data.cols, f)

\* data.mean(axis=1): the mean over the columns, one value per row
RowMeans(data) == [i \in 1..data.rows |-> RMean(data.v[i])]

Shape(data) == <<data.rows, data.cols>>

\* The values the measurement files of the model hold: pattern s at row i, column j.
Patterns == 0..3
Sample(s, i, j) == FromInt(((s + 2 * i + 3 * j + s * i * j) % 5) - 2)

Loaded(r, c, s) == LET f(i, j) == Sample(s, i, j) IN Ensemble(r, c, f)

\* Arrays a file can load to, an array with no rows or no columns included.
Arrays == {Loaded(r, c, s) : r \in 0..MaxRows, c \in 0..FileCols, s \in Patterns}

\* The ensembles of the data model: at least one row and one column.
Ensembles == {Loaded(r, c, s) : r \in 1..MaxRows, c \in 1..MaxCols, s \in Patterns}

---------------------------------------------------------------------------
(* shape_accomodation.py *)

\* The random draws of the model: np.random.uniform(-|a|, |a|) returns |a| * k
\* for a k of NoiseDraws, the two ends of the range it draws from.
NoiseDraws == {-1, 1}

\* 0.1 * u, the factor of shape_accomodation.py written as 1 / NoiseDen
NoiseDen == 10

\* numpy assigns an array of n values to a column slice of m values
\* when n = m or when n = 1 (broadcast); otherwise it raises ValueError.
Broadcastable(n, m) == n = m \/ n = 1

\* NoisyAverage without the factor 0.1
NoisyAverage_unscaled(avg, k) == RAdd(avg, RMul(RAbs(avg), FromInt(k)))

\* col_avg[i] + 0.1 * np.random.uniform(-np.abs(col_avg), abs(col_avg))[i], draw k
NoisyAverage(avg, k) == RAdd(avg, RDivInt(RMul(RAbs(avg), FromInt(k)), NoiseDen))

\* The cells a widening draws a random number for: one per row of the narrower
\* ensemble and per column of range(from_cols, to_cols).
DrawCells(narrow, from_cols, to_cols) == (1..narrow.rows) \X ((from_cols + 1)..to_cols)

\* Whether filling np.zeros(shape=(rows, cols)) from `narrow` raises: a column of
\* narrow.rows values is assigned to a column of `rows` values, at an index below cols.
WidenRaises(narrow, rows, cols, from_cols, to_cols) ==
    \/ narrow.cols > 0 /\ ~Broadcastable(narrow.rows, rows)
    \/ narrow.cols > cols
    \/ from_cols < to_cols /\ ~Broadcastable(narrow.rows, rows)
    \/ from_cols < to_cols /\ to_cols > cols

\* Widen copying all but the last of the original columns
Widen_short(narrow, rows, cols, from_cols, to_cols, draw) ==
    LET col_avg == RowMeans(narrow)
        src(i) == IF narrow.rows = 1 THEN 1 ELSE i
        f(i, j) == IF j > from_cols /\ j <= to_cols
                   THEN NoisyAverage(col_avg[src(i)], draw[<<src(i), j>>])
                   ELSE IF j < narrow.cols THEN narrow.v[src(i)][j]
                   ELSE Zero
    IN  Ensemble(rows, cols, f)

\* temp = np.zeros(shape=(rows, cols)); temp[:, i] = col for the columns of `narrow`;
\* temp[:, j] = noisy average for j in range(from_cols, to_cols)
Widen(narrow, rows, cols, from_cols, to_cols, draw) ==
    LET col_avg == RowMeans(narrow)
        src(i) == IF narrow.rows = 1 THEN 1 ELSE i
        f(i, j) == IF j > from_cols /\ j <= to_cols
                   THEN NoisyAverage(col_avg[src(i)], draw[<<src(i), j>>])
                   ELSE IF j <= narrow.cols THEN narrow.v[src(i)][j]
                   ELSE Zero
    IN  Ensemble(rows, cols, f)

Returned(pre, post) == [err |-> FALSE, pre |-> pre, post |-> post]
Raised(pre, post) == [err |-> TRUE, pre |-> pre, post |-> post]

\* data[-n:, :]
TailRows(data, n) ==
    LET k == Min(Max(n, 0), data.rows)
        f(i, j) == data.v[data.rows - k + i][j]
    IN  Ensemble(k, data.cols, f)

\* match_rows keeping the last rows instead of the first
match_rows_tail(pre, post, pre_rows, post_rows) ==
    IF pre_rows < post_rows THEN Returned(pre, TailRows(post, pre_rows))
    ELSE IF pre_rows > post_rows THEN Returned(TailRows(pre, post_rows), post)
    ELSE Returned(pre, post)

match_rows(pre, post, pre_rows, post_rows) ==
    IF pre_rows < post_rows THEN Returned(pre, HeadRows(post, pre_rows))
    ELSE IF pre_rows > post_rows THEN Returned(HeadRows(pre, post_rows), post)
    ELSE Returned(pre, post)

\* The cells match_cols draws for.
match_cols_draws(pre, post, pre_cols, post_cols) ==
    IF pre_cols < post_cols THEN DrawCells(pre, pre_cols, post_cols)
    ELSE IF pre_cols > post_cols THEN DrawCells(post, post_cols, pre_cols)
    ELSE {}

match_cols(pre, post, pre_rows, pre_cols, post_rows, post_cols, draw) ==
    IF pre_cols < post_cols
    THEN IF WidenRaises(pre, post_rows, post_cols, pre_cols, post_cols)
         THEN Raised(pre, post)
         ELSE Returned(Widen(pre, post_rows, post_cols, pre_cols, post_cols, draw), post)
    ELSE IF pre_cols > post_cols
    THEN IF WidenRaises(post, pre_rows, pre_cols, post_cols, pre_cols)
         THEN Raised(pre, post)
         ELSE Returned(pre, Widen(post, pre_rows, pre_cols, post_cols, pre_cols, draw))
    ELSE Returned(pre, post)

\* The fixed width of increase_cols
FixedCols == 5

\* The cells increase_cols draws for: range(pre_cols, post_cols) for the pre-exercise
\* array and range(post_cols, pre_cols) for the post-exercise array.
increase_cols_draws(pre, post, pre_cols, post_cols) ==
    DrawCells(pre, pre_cols, post_cols) \cup DrawCells(post, post_cols, pre_cols)

increase_cols(pre, post, pre_rows, pre_cols, post_rows, post_cols, draw) ==
    IF \/ WidenRaises(pre, post_rows, FixedCols, pre_cols, post_cols)
       \/ WidenRaises(post, pre_rows, FixedCols, post_cols, pre_cols)
    THEN Raised(pre, post)
    ELSE Returned(Widen(pre, post_rows, FixedCols, pre_cols, post_cols, draw),
                  Widen(post, pre_rows, FixedCols, post_cols, pre_cols, draw))

---------------------------------------------------------------------------
(* Values of the variables that an operation of another component leaves alone *)

\* ret.k is the averaging window an artefact correction was called with (0 otherwise)
NoCall == [op |-> "none", err |-> FALSE, pre |-> Zeros(0, 0), post |-> Zeros(0, 0),
           k |-> 0]

NoOutput == [handler |-> "none", null |-> FALSE, reshaped |-> FALSE, raised |-> FALSE,
             stat |-> FALSE, plot |-> FALSE, file |-> FALSE, msg |-> FALSE]

NoBatch == [pc |-> "idle"]

NoInference == [alpha |-> Zero, zstar |-> Zero, has_clusters |-> TRUE, clusters |-> <<>>]

Call(op, r) == [op |-> op, err |-> r.err, pre |-> r.pre, post |-> r.post, k |-> 0]

---------------------------------------------------------------------------
(* Direct calls of the functions of shape_accomodation.py on a pair of       *)
(* ensembles, each called with the row and column counts of its arguments.  *)

InitShape ==
    /\ pre_data \in Ensembles
    /\ post_data \in Ensembles
    /\ pre_in = pre_data
    /\ post_in = post_data
    /\ ret = NoCall
    /\ out = NoOutput
    /\ batch = NoBatch
    /\ spm_ti = NoInference

MatchRowsCall ==
    /\ ret.op = "none"
    /\ ret' = Call("match_rows",
                   match_rows(pre_data, post_data, pre_data.rows, post_data.rows))
    /\ UNCHANGED <<pre_data, post_data, pre_in, post_in, out, batch, spm_ti>>

MatchColsCall ==
    /\ ret.op = "none"
    /\ \E draw \in [match_cols_draws(pre_data, post_data, pre_data.cols, post_data.cols)
                        -> NoiseDraws] :
          ret' = Call("match_cols",
                      match_cols(pre_data, post_data, pre_data.rows, pre_data.cols,
                                 post_data.rows, post_data.cols, draw))
    /\ UNCHANGED <<pre_data, post_data, pre_in, post_in, out, batch, spm_ti>>

IncreaseColsCall ==
    /\ ret.op = "none"
    /\ \E draw \in [increase_cols_draws(pre_data, post_data, pre_data.cols, post_data.cols)
                        -> NoiseDraws] :
          ret' = Call("increase_cols",
                      increase_cols(pre_data, post_data, pre_data.rows, pre_data.cols,
                                    post_data.rows, post_data.cols, draw))
    /\ UNCHANGED <<pre_data, post_data, pre_in, post_in, out, batch, spm_ti>>

NextShape == MatchRowsCall \/ MatchColsCall \/ IncreaseColsCall

SpecShape == InitShape /\ [][NextShape]_vars

---------------------------------------------------------------------------
(* misc/spm_interface.py: SPMInterface *)

\* is_import_data_null checking the pre-exercise array only
is_import_data_null_pre(pre, post) == pre.rows * pre.cols = 0

is_import_data_null(pre, post) == pre.rows * pre.cols * post.rows * post.cols = 0

\* The first step of reshape_data: the if / elif / elif on the two shapes. The row and
\* column counts are read once, before any reshaping, and passed on as read.
reshape_step(pre, post, draw) ==
    IF pre.rows # post.rows /\ pre.cols = post.cols
    THEN match_rows(pre, post, pre.rows, post.rows)
    ELSE IF pre.rows = post.rows /\ pre.cols # post.cols
    THEN match_cols(pre, post, pre.rows, pre.cols, post.rows, post.cols, draw)
    ELSE IF Shape(pre) # Shape(post)
    THEN LET r == match_rows(pre, post, pre.rows, post.rows)
         IN  match_cols(r.pre, r.post, pre.rows, pre.cols, post.rows, post.cols, draw)
    ELSE Returned(pre, post)

\* reshape_data taking the fixed-width path whenever the column counts are equal
reshape_data_equal(pre, post, draw) ==
    LET r == reshape_step(pre, post, draw)
    IN  IF r.err THEN r
        ELSE IF pre.cols = post.cols
        THEN increase_cols(r.pre, r.post, pre.rows, pre.cols, post.rows, post.cols, draw)
        ELSE r

\* reshape_data: the fields self.pre_data and self.post_data after it returned, or as
\* they were left when it raised
reshape_data(pre, post, draw) ==
    LET r == reshape_step(pre, post, draw)
    IN  IF r.err THEN r
        ELSE IF pre.cols = 1 /\ post.cols = 1
        THEN increase_cols(r.pre, r.post, pre.rows, pre.cols, post.rows, post.cols, draw)
        ELSE r

\* The cells reshape_data draws a random number for (none when the widening raises
\* on its first column assignment).
reshape_data_draws(pre, post) ==
    IF pre.cols = post.cols THEN {}
    ELSE LET r == match_rows(pre, post, pre.rows, post.rows)
             narrow == IF pre.cols < post.cols THEN r.pre ELSE r.post
             rows == IF pre.cols < post.cols THEN post.rows ELSE pre.rows
         IN  IF Broadcastable(narrow.rows, rows)
             THEN match_cols_draws(r.pre, r.post, pre.cols, post.cols)
             ELSE {}

\* The state after construction with both files loaded (set_pre_data, set_post_data);
\* a file that could not be loaded leaves np.zeros(shape=(0, 0)).
Init ==
    /\ pre_data \in Arrays
    /\ post_data \in Arrays
    /\ pre_in = pre_data
    /\ post_in = post_data
    /\ ret = NoCall
    /\ out = NoOutput
    /\ batch = NoBatch
    /\ spm_ti = NoInference

Handled(handler) == [NoOutput EXCEPT !.handler = handler]

\* compare: the null check, reshape_data, plot_test_results (get_spm_ti raises or
\* returns; when it returns the description is set and the plot is drawn).
compare ==
    /\ pre_in' = pre_data
    /\ post_in' = post_data
    /\ IF is_import_data_null(pre_data, post_data)
       THEN /\ out' = [Handled("compare") EXCEPT !.null = TRUE]
            /\ ret' = NoCall
            /\ UNCHANGED <<pre_data, post_data>>
       ELSE \E draw \in [reshape_data_draws(pre_data, post_data) -> NoiseDraws] :
            LET r == reshape_data(pre_data, post_data, draw)
            IN  /\ pre_data' = r.pre
                /\ post_data' = r.post
                /\ ret' = Call("reshape_data", r)
                /\ IF r.err
                   THEN out' = [Handled("compare") EXCEPT !.reshaped = TRUE, !.raised = TRUE]
                   ELSE \E spm_ok \in BOOLEAN :
                        out' = [Handled("compare") EXCEPT !.reshaped = TRUE, !.stat = TRUE,
                                   !.plot = spm_ok, !.msg = ~spm_ok]
    /\ UNCHANGED <<batch, spm_ti>>

\* How an export ends once the null check has passed: the statistic call raises (a
\* message is printed), or it returns and the file chooser is cancelled, or the file is
\* written, or writing it raises (a message is printed).
ExportResults == {"spm_raised", "cancelled", "written", "write_raised"}

\* export_tcurve: the null check, get_spm_t, export_t_curve
export_tcurve ==
    /\ pre_in' = pre_data
    /\ post_in' = post_data
    /\ ret' = NoCall
    /\ IF is_import_data_null(pre_data, post_data)
       THEN out' = [Handled("export_tcurve") EXCEPT !.null = TRUE]
       ELSE \E result \in ExportResults :
            out' = [Handled("export_tcurve") EXCEPT !.stat = TRUE,
                       !.file = (result = "written"),
                       !.msg = (result \in {"spm_raised", "write_raised"})]
    /\ UNCHANGED <<pre_data, post_data, batch, spm_ti>>

\* export_tparams: the null check, get_spm_ti (raises or returns), export_ti_parameters
export_tparams ==
    /\ pre_in' = pre_data
    /\ post_in' = post_data
    /\ ret' = NoCall
    /\ IF is_import_data_null(pre_data, post_data)
       THEN out' = [Handled("export_tparams") EXCEPT !.null = TRUE]
       ELSE \E result \in ExportResults :
            out' = [Handled("export_tparams") EXCEPT !.stat = TRUE,
                       !.file = (result = "written"),
                       !.msg = (result \in {"spm_raised", "write_raised"})]
    /\ UNCHANGED <<pre_data, post_data, batch, spm_ti>>

Next == compare \/ export_tcurve \/ export_tparams

Spec == Init /\ [][Next]_vars

---------------------------------------------------------------------------
(* data_preprocessing.py and tmp/spm_preprocessing.py: the filter-artefact correction *)

FILTER_ARTEFACT_ROWS_TO_AVERAGE == 3
START_ROWS_TO_AVERAGE == 3

\* The subtraction confined to the first row of the ensemble
Subtract_first_row(data, d) ==
    LET f(i, j) == IF i = 1 THEN FSub(data.v[i][j], d) ELSE data.v[i][j]
    IN  Ensemble(data.rows, data.cols, f)

\* df - d: the scalar d subtracted from every value, each difference rounded
Subtract(data, d) ==
    LET by[x \in {d}] ==
            LET f(i, j) == FSub(data.v[i][j], x) IN Ensemble(data.rows, data.cols, f)
    IN  by[d]

\* df.mean().mean(): the mean over the columns of each column's mean over the rows
DataFrameMean(df) ==
    FMean([j \in 1..df.cols |-> FMean([i \in 1..df.rows |-> df.v[i][j]])])

\* np.mean(np.mean(data, axis=1)): the mean over the rows of each row's mean
ArrayMean(data) ==
    FMean([i \in 1..data.rows |-> FMean(data.v[i])])

\* The correction with the difference of the means taken the other way round
remove_artefact_swapped(pre_df, post_df, first_n_rows_to_average) ==
    LET pre_mean == DataFrameMean(HeadRows(pre_df, first_n_rows_to_average))
        post_mean == DataFrameMean(HeadRows(post_df, first_n_rows_to_average))
    IN  IF RLt(pre_mean, post_mean)
        THEN Returned(pre_df, Subtract(post_df, FSub(pre_mean, post_mean)))
        ELSE Returned(pre_df, post_df)

\* The correction applied whenever the two means differ
remove_artefact_both_ways(pre_df, post_df, first_n_rows_to_average) ==
    LET pre_mean == DataFrameMean(HeadRows(pre_df, first_n_rows_to_average))
        post_mean == DataFrameMean(HeadRows(post_df, first_n_rows_to_average))
    IN  IF post_mean # pre_mean
        THEN Returned(pre_df, Subtract(post_df, FSub(post_mean, pre_mean)))
        ELSE Returned(pre_df, post_df)

\* _remove_spm_significance_from_filter_artefact: a new DataFrame is returned, the
\* arguments are left as they were
remove_spm_significance_from_filter_artefact(pre_df, post_df, first_n_rows_to_average) ==
    LET pre_mean == DataFrameMean(HeadRows(pre_df, first_n_rows_to_average))
        post_mean == DataFrameMean(HeadRows(post_df, first_n_rows_to_average))
    IN  IF RLt(pre_mean, post_mean)
        THEN Returned(pre_df, Subtract(post_df, FSub(post_mean, pre_mean)))
        ELSE Returned(pre_df, post_df)

\* fix_false_spm_significance: post_data -= d changes the caller's array in place
fix_false_spm_significance(pre, post) ==
    LET pre_mean == ArrayMean(HeadRows(pre, START_ROWS_TO_AVERAGE))
        post_mean == ArrayMean(HeadRows(post, START_ROWS_TO_AVERAGE))
    IN  IF RLt(pre_mean, post_mean)
        THEN Returned(pre, Subtract(post, FSub(post_mean, pre_mean)))
        ELSE Returned(pre, post)

\* The ensembles read from a pair of measurement files
Signals == {Loaded(r, c, s) : r \in 1..SignalRows, c \in 1..SignalCols, s \in Patterns}

InitArtefact ==
    /\ pre_data \in Signals
    /\ post_data \in Signals
    /\ pre_in = pre_data
    /\ post_in = post_data
    /\ ret = NoCall
    /\ out = NoOutput
    /\ batch = NoBatch
    /\ spm_ti = NoInference

\* _prepare_csv_files_for_spm calls the correction with the default window; the window
\* is a parameter, so the shorter windows are called too.
RemoveArtefactCall ==
    /\ ret.op = "none"
    /\ \E first_n \in 1..FILTER_ARTEFACT_ROWS_TO_AVERAGE :
          ret' = [Call("_remove_spm_significance_from_filter_artefact",
                       remove_spm_significance_from_filter_artefact(
                           pre_data, post_data, first_n))
                  EXCEPT !.k = first_n]
    /\ UNCHANGED <<pre_data, post_data, pre_in, post_in, out, batch, spm_ti>>

FixFalseSignificanceCall ==
    /\ ret.op = "none"
    /\ LET r == fix_false_spm_significance(pre_data, post_data)
       IN  /\ ret' = [Call("fix_false_spm_significance", r)
                      EXCEPT !.k = START_ROWS_TO_AVERAGE]
           /\ pre_data' = r.pre
           /\ post_data' = r.post
    /\ UNCHANGED <<pre_in, post_in, out, batch, spm_ti>>

\* The caller applies the same correction, with the same window, to the pair the
\* first call returned (pre_df, post_df = f(pre_df, post_df) once more).
CorrectAgainCall ==
    /\ ret.op \in {"_remove_spm_significance_from_filter_artefact",
                   "fix_false_spm_significance"}
    /\ out.handler = "none"
    /\ LET r == IF ret.op = "fix_false_spm_significance"
                THEN fix_false_spm_significance(ret.pre, ret.post)
                ELSE remove_spm_significance_from_filter_artefact(ret.pre, ret.post, ret.k)
       IN  /\ out' = [handler |-> "again", pre |-> r.pre, post |-> r.post]
           /\ IF ret.op = "fix_false_spm_significance"
              THEN pre_data' = r.pre /\ post_data' = r.post
              ELSE UNCHANGED <<pre_data, post_data>>
    /\ UNCHANGED <<pre_in, post_in, ret, batch, spm_ti>>

NextArtefact == RemoveArtefactCall \/ FixFalseSignificanceCall \/ CorrectAgainCall

SpecArtefact == InitArtefact /\ [][NextArtefact]_vars

---------------------------------------------------------------------------
(* spm_analysis.py: the batch drivers and _perform_spm_analysis *)

\* What spm1d does with one pre/post pair: ttest_paired raises; or it returns and
\* inference raises; or both return and ti.clusters is None, an empty list or a list
\* of clusters.
Outcomes == {"ttest_raises", "inference_raises", "clusters_none", "no_clusters", "clusters"}

\* The pairs for which the delegated statistic or inference call raises
Failing == {"ttest_raises", "inference_raises"}

\* The except clause returning what the try block had computed so far
get_spm_t_ti_partial(outcome) ==
    IF outcome = "ttest_raises" THEN [t |-> "None", ti |-> "None", msg |-> TRUE]
    ELSE IF outcome = "inference_raises" THEN [t |-> "SPM_T", ti |-> "None", msg |-> TRUE]
    ELSE [t |-> "SPM_T", ti |-> "SPMi_T", msg |-> FALSE]

\* _get_spm_t_ti_paired_ttest: (t, ti), or on any exception a printed message and
\* (None, None)
get_spm_t_ti_paired_ttest(outcome) ==
    IF outcome \in Failing
    THEN [t |-> "None", ti |-> "None", msg |-> TRUE]
    ELSE [t |-> "SPM_T", ti |-> "SPMi_T", msg |-> FALSE]

\* _get_ti_parameters_as_df: ti.clusters raises AttributeError when ti is None; None
\* is returned when ti.clusters is None; otherwise a DataFrame of one column per cluster
get_ti_parameters_as_df(ti, outcome) ==
    IF ti = "None" THEN "AttributeError"
    ELSE IF outcome = "clusters_none" THEN "None"
    ELSE "DataFrame"

\* _perform_spm_analysis on one pair: what _get_spm_t_ti_paired_ttest returned, whether
\* the parameter file and the plot were written, and whether an exception left it
perform_spm_analysis(outcome) ==
    LET r == get_spm_t_ti_paired_ttest(outcome)
        param_df == get_ti_parameters_as_df(r.ti, outcome)
    IN  IF param_df = "AttributeError"
        THEN [t |-> r.t, ti |-> r.ti, msg |-> r.msg,
              raised |-> TRUE, file |-> FALSE, plot |-> FALSE]
        ELSE IF param_df = "None"
        THEN [t |-> r.t, ti |-> r.ti, msg |-> r.msg,
              raised |-> TRUE, file |-> FALSE, plot |-> FALSE]
        ELSE [t |-> r.t, ti |-> r.ti, msg |-> r.msg,
              raised |-> FALSE, file |-> TRUE, plot |-> TRUE]

BatchFunctions == {"perform_spm_tests_by_set_across_subj",
                   "spm_tests_by_subj_across_sets_1mps",
                   "spm_tests_by_subj_by_set_8mps"}

\* The sequences of 1..n pairs
PairLists(n) == UNION {[1..k -> Outcomes] : k \in 1..n}

\* A batch function has listed its input files and is about to enter its loop.
InitBatch ==
    /\ pre_data = Zeros(0, 0)
    /\ post_data = Zeros(0, 0)
    /\ pre_in = pre_data
    /\ post_in = post_data
    /\ ret = NoCall
    /\ out = NoOutput
    /\ spm_ti = NoInference
    /\ \E fn \in BatchFunctions, pairs \in PairLists(MaxPairs) :
          batch = [pc |-> "running", fn |-> fn, pairs |-> pairs, i |-> 0, got |-> <<>>,
                   files |-> {}, plots |-> {}, log |-> {}]

\* One pass of the loop of batch function fn: _perform_spm_analysis on the next pair.
\* An exception leaving it leaves the loop and the function; after the last pair the
\* function returns.
LoopPass(fn) ==
    /\ batch.pc = "running"
    /\ batch.fn = fn
    /\ LET n == batch.i + 1
           r == perform_spm_analysis(batch.pairs[n])
       IN  batch' = [batch EXCEPT
                !.i = n,
                !.got = Append(@, [t |-> r.t, ti |-> r.ti]),
                !.log = IF r.msg THEN @ \cup {n} ELSE @,
                !.files = IF r.file THEN @ \cup {n} ELSE @,
                !.plots = IF r.plot THEN @ \cup {n} ELSE @,
                !.pc = IF r.raised THEN "aborted"
                       ELSE IF n = Len(batch.pairs) THEN "done" ELSE "running"]
    /\ UNCHANGED <<pre_data, post_data, pre_in, post_in, ret, out, spm_ti>>

perform_spm_tests_by_set_across_subj == LoopPass("perform_spm_tests_by_set_across_subj")
spm_tests_by_subj_across_sets_1mps == LoopPass("spm_tests_by_subj_across_sets_1mps")
spm_tests_by_subj_by_set_8mps == LoopPass("spm_tests_by_subj_by_set_8mps")

NextBatch ==
    \/ perform_spm_tests_by_set_across_subj
    \/ spm_tests_by_subj_across_sets_1mps
    \/ spm_tests_by_subj_by_set_8mps

SpecBatch == InitBatch /\ [][NextBatch]_vars

---------------------------------------------------------------------------
(* spm_analysis.py: the cluster parameterizer *)

\* numpy's max of a non-empty 1D array
RECURSIVE RMax(_)
RMax(s) ==
    IF Len(s) = 1 THEN s[1]
    ELSE LET m == RMax(Tail(s)) IN IF RLt(m, s[1]) THEN s[1] ELSE m

\* The statistic values of the clusters the inference hands over: constant and
\* positive, constant and negative, varying above zero, varying across zero.
Profiles == 0..3

ProfileValue(s, i) ==
    CASE s = 0 -> 3
      [] s = 1 -> -1
      [] s = 2 -> IF i % 2 = 1 THEN 3 ELSE 1
      [] OTHER -> IF i % 2 = 1 THEN 2 ELSE -3

\* A cluster object over the grid times x0 .. x0+n-1 with profile s, as
\* t.inference(interp=True) builds it for the threshold u: a cluster that does not
\* begin at the edge of the continuum starts with a point interpolated to the
\* threshold, a fraction of a sample before x0 that depends on the values (a
\* floating-point number). endpoints, centroid and P are fields of their own,
\* computed by the library when the cluster is built.
LeadFraction(s) == IF s = 0 THEN Rat(3, 7) ELSE Rat(2, 3)

Cluster(x0, n, s, u) ==
    LET gridX == [i \in 1..n |-> FromInt(x0 + i - 1)]
        gridZ == [i \in 1..n |-> FromInt(ProfileValue(s, i))]
        X == IF x0 > 0 THEN <<Fl(RSub(FromInt(x0), LeadFraction(s)))>> \o gridX ELSE gridX
        Z == IF x0 > 0 THEN <<FromInt(u)>> \o gridZ ELSE gridZ
    IN  [X |-> X, Z |-> Z,
         endpoints |-> <<X[1], X[Len(X)]>>,
         centroid |-> <<FMean(X), FMean(Z)>>,
         P |-> Rat(((s + x0) % 3), 100)]

\* The cluster lists of an inference with threshold u over the samples from .. last:
\* ascending by start time, separated by at least one sample below the threshold.
RECURSIVE ClusterLists(_, _)
ClusterLists(from, u) ==
    {<<>>} \cup
    UNION { UNION { { <<Cluster(x0, n, s, u)>> \o rest :
                          rest \in ClusterLists(x0 + n + 1, u) } :
                    n \in 1..(ContinuumLen - x0), s \in Profiles } :
            x0 \in from..(ContinuumLen - 1) }

\* An offset added twice
Offset_twice(x, time_offset) == FAdd(FAdd(x, FromInt(time_offset)), FromInt(time_offset))

\* tstart += time_offset, tend += time_offset, cluster.centroid[0] + time_offset
Offset(x, time_offset) == FAdd(x, FromInt(time_offset))

\* cluster_time += time_offset on the array cluster._X
Shifted(time, time_offset) == [n \in 1..Len(time) |-> FAdd(time[n], FromInt(time_offset))]

\* A sum of whole, not halved, neighbouring values
RECURSIVE A_above_x_unhalved(_, _, _)
A_above_x_unhalved(cluster_time, cluster_spm_t, n) ==
    IF n <= 1 THEN Zero
    ELSE FAdd(A_above_x_unhalved(cluster_time, cluster_spm_t, n - 1),
              FMul(RAbs(FAdd(cluster_spm_t[n], cluster_spm_t[n - 1])),
                   FSub(cluster_time[n], cluster_time[n - 1])))

\* A sum of the means themselves, not of their absolute values
RECURSIVE A_above_x_signed(_, _, _)
A_above_x_signed(cluster_time, cluster_spm_t, n) ==
    IF n <= 1 THEN Zero
    ELSE FAdd(A_above_x_signed(cluster_time, cluster_spm_t, n - 1),
              FMul(FMul(Rat(1, 2), FAdd(cluster_spm_t[n], cluster_spm_t[n - 1])),
                   FSub(cluster_time[n], cluster_time[n - 1])))

\* The loop "for n in range(1, N, 1): A_above_x += ..." run up to index n (1-based)
RECURSIVE A_above_x(_, _, _)
A_above_x(cluster_time, cluster_spm_t, n) ==
    IF n <= 1 THEN Zero
    ELSE FAdd(A_above_x(cluster_time, cluster_spm_t, n - 1),
              FMul(RAbs(FMul(Rat(1, 2), FAdd(cluster_spm_t[n], cluster_spm_t[n - 1]))),
                   FSub(cluster_time[n], cluster_time[n - 1])))

\* The threshold area taken over the number of intervals instead of the time spanned
A_above_threshold_by_count(area, threshold, cluster_time) ==
    FSub(area, FMul(threshold, FromInt(Len(cluster_time) - 1)))

A_above_threshold(area, threshold, cluster_time) ==
    FSub(area, FMul(threshold, FSub(cluster_time[Len(cluster_time)], cluster_time[1])))

\* A parameterizer that reads the start and end time from the offset grid
get_params_from_offset_grid(cluster, alpha, threshold, time_offset) ==
    LET cluster_time == Shifted(cluster.X, time_offset)
        cluster_spm_t == cluster.Z
        area == A_above_x(cluster_time, cluster_spm_t, Len(cluster_time))
    IN  [params |-> [alpha |-> alpha,
                     threshold |-> threshold,
                     p |-> cluster.P,
                     tstart |-> cluster_time[1],
                     tend |-> cluster_time[Len(cluster_time)],
                     centroid_time |-> Offset(cluster.centroid[1], time_offset),
                     centroid_t |-> cluster.centroid[2],
                     maximum |-> RMax(cluster_spm_t),
                     area_above_threshold |-> A_above_threshold(area, threshold, cluster_time),
                     area_above_x |-> area],
         cluster |-> [cluster EXCEPT !.X = cluster_time]]

\* An earlier parameterizer that reports the centroid's value as its time
get_spm_cluster_params_centroid(cluster, alpha, threshold) ==
    LET cluster_time == cluster.X
        cluster_spm_t == cluster.Z
        area == A_above_x(cluster_time, cluster_spm_t, Len(cluster_time))
    IN  [alpha |-> alpha,
         threshold |-> threshold,
         p |-> cluster.P,
         tstart |-> cluster.endpoints[1],
         tend |-> cluster.endpoints[2],
         centroid_time |-> cluster.centroid[2],
         centroid_t |-> cluster.centroid[2],
         maximum |-> RMax(cluster_spm_t),
         area_above_threshold |-> A_above_threshold(area, threshold, cluster_time),
         area_above_x |-> area]

\* _get_params_of_spm_cluster: the ten parameters in the order of SPM_PARAM_NAMES, and
\* the cluster object as the call leaves it (cluster_time is cluster._X itself, so the
\* in-place addition shifts the object's times)
get_params_of_spm_cluster(cluster, alpha, threshold, time_offset) ==
    LET tstart == Offset(cluster.endpoints[1], time_offset)
        tend == Offset(cluster.endpoints[2], time_offset)
        cluster_time == Shifted(cluster.X, time_offset)
        cluster_spm_t == cluster.Z
        area == A_above_x(cluster_time, cluster_spm_t, Len(cluster_time))
    IN  [params |-> [alpha |-> alpha,
                     threshold |-> threshold,
                     p |-> cluster.P,
                     tstart |-> tstart,
                     tend |-> tend,
                     centroid_time |-> Offset(cluster.centroid[1], time_offset),
                     centroid_t |-> cluster.centroid[2],
                     maximum |-> RMax(cluster_spm_t),
                     area_above_threshold |-> A_above_threshold(area, threshold, cluster_time),
                     area_above_x |-> area],
         cluster |-> [cluster EXCEPT !.X = cluster_time]]

\* tmp/spm_analysis.py, get_spm_cluster_params: the earlier parameterizer, which takes
\* no time_offset and reads the cluster without writing to it
get_spm_cluster_params(cluster, alpha, threshold) ==
    LET cluster_time == cluster.X
        cluster_spm_t == cluster.Z
        area == A_above_x(cluster_time, cluster_spm_t, Len(cluster_time))
    IN  [alpha |-> alpha,
         threshold |-> threshold,
         p |-> cluster.P,
         tstart |-> cluster.endpoints[1],
         tend |-> cluster.endpoints[2],
         centroid_time |-> cluster.centroid[1],
         centroid_t |-> cluster.centroid[2],
         maximum |-> RMax(cluster_spm_t),
         area_above_threshold |-> A_above_threshold(area, threshold, cluster_time),
         area_above_x |-> area]

\* The table with its columns in reverse cluster order
ti_parameters_as_df_reversed(ti_obj, time_offset) ==
    LET clusters == ti_obj.clusters
        N == Len(clusters)
        r == [c \in 1..N |->
                  get_params_of_spm_cluster(clusters[c], ti_obj.alpha, ti_obj.zstar,
                                            time_offset)]
    IN  [none |-> ~ti_obj.has_clusters,
         columns |-> [c \in 1..N |-> r[N + 1 - c].params],
         ti |-> [ti_obj EXCEPT !.clusters = [c \in 1..N |-> r[c].cluster]]]

\* The table with the critical value passed as alpha and alpha as the threshold
ti_parameters_as_df_swapped(ti_obj, time_offset) ==
    LET clusters == ti_obj.clusters
        r == [c \in 1..Len(clusters) |->
                  get_params_of_spm_cluster(clusters[c], ti_obj.zstar, ti_obj.alpha,
                                            time_offset)]
    IN  [none |-> ~ti_obj.has_clusters,
         columns |-> [c \in 1..Len(clusters) |-> r[c].params],
         ti |-> [ti_obj EXCEPT !.clusters = [c \in 1..Len(clusters) |-> r[c].cluster]]]

\* _get_ti_parameters_as_df on an inference object: None when ti.clusters is None,
\* otherwise one column per cluster in the order of ti.clusters; and the inference
\* object as the call leaves it
ti_parameters_as_df(ti_obj, time_offset) ==
    IF ~ti_obj.has_clusters
    THEN [none |-> TRUE, columns |-> <<>>, ti |-> ti_obj]
    ELSE LET clusters == ti_obj.clusters
             alpha == ti_obj.alpha
             threshold == ti_obj.zstar
             r == [c \in 1..Len(clusters) |->
                       get_params_of_spm_cluster(clusters[c], alpha, threshold, time_offset)]
         IN  [none |-> FALSE,
              columns |-> [c \in 1..Len(clusters) |-> r[c].params],
              ti |-> [ti_obj EXCEPT !.clusters = [c \in 1..Len(clusters) |-> r[c].cluster]]]

\* A significance level (alpha) the caller configures, in hundredths, with the critical
\* value (zstar) the inference returns for it
Levels == {<<1, 3>>, <<5, 1>>}

\* time_offset arguments (constants.TMG_ROWS_TO_SKIP_FOR_SPM is 1)
Offsets == {0, 1}

\* ti = t.inference(alpha=alpha, ...): the objects _get_spm_t_ti_paired_ttest returns
Inferences ==
    UNION { {[alpha |-> Rat(l[1], 100), zstar |-> FromInt(l[2]), has_clusters |-> TRUE,
              clusters |-> cl] : cl \in ClusterLists(0, l[2])}
            \cup {[alpha |-> Rat(l[1], 100), zstar |-> FromInt(l[2]),
                   has_clusters |-> FALSE, clusters |-> <<>>]} :
            l \in Levels }

\* What the caller keeps of the call before the last one: the function, its
\* time_offset, the cluster it was given and the values it returned
NoEarlier == [op |-> "none", k |-> 0, c |-> 0, columns |-> <<>>]
Earlier == [op |-> ret.op, k |-> ret.k, c |-> ret.c, columns |-> ret.columns]

NoParams == [op |-> "none", err |-> FALSE, k |-> 0, n |-> 0, c |-> 0, before |-> NoInference,
             none |-> FALSE, columns |-> <<>>, earlier |-> NoEarlier]

InitParams ==
    /\ pre_data = Zeros(0, 0)
    /\ post_data = Zeros(0, 0)
    /\ pre_in = pre_data
    /\ post_in = post_data
    /\ out = NoOutput
    /\ batch = NoBatch
    /\ ret = NoParams
    /\ spm_ti \in Inferences

\* _get_ti_parameters_as_df(ti, time_offset) is called on the inference object. The
\* plot with its annotation is the last step of _perform_spm_analysis: nothing is
\* parameterized after it.
GetTiParametersCall ==
    /\ ret.n < MaxCalls
    /\ out.handler = "none"
    /\ \E time_offset \in Offsets :
          LET r == ti_parameters_as_df(spm_ti, time_offset)
          IN  /\ ret' = [op |-> "get_ti_parameters_as_df", err |-> FALSE, k |-> time_offset,
                         n |-> ret.n + 1, c |-> 0, before |-> spm_ti,
                         none |-> r.none, columns |-> r.columns, earlier |-> Earlier]
              /\ spm_ti' = r.ti
    /\ UNCHANGED <<pre_data, post_data, pre_in, post_in, out, batch>>

\* _get_params_of_spm_cluster is called on one cluster of the inference object, with
\* the object's alpha and threshold as _get_ti_parameters_as_df passes them.
GetParamsOfClusterCall ==
    /\ ret.n < MaxCalls
    /\ out.handler = "none"
    /\ spm_ti.has_clusters
    /\ \E c \in 1..Len(spm_ti.clusters), time_offset \in Offsets :
          LET r == get_params_of_spm_cluster(spm_ti.clusters[c], spm_ti.alpha,
                                             spm_ti.zstar, time_offset)
          IN  /\ ret' = [op |-> "get_params_of_spm_cluster", err |-> FALSE,
                         k |-> time_offset, n |-> ret.n + 1, c |-> c, before |-> spm_ti,
                         none |-> FALSE, columns |-> <<r.params>>,
                         earlier |-> Earlier]
              /\ spm_ti' = [spm_ti EXCEPT !.clusters[c] = r.cluster]
    /\ UNCHANGED <<pre_data, post_data, pre_in, post_in, out, batch>>

\* get_spm_cluster_params of tmp/spm_analysis.py is called on one cluster of the
\* inference object.
GetSpmClusterParamsCall ==
    /\ ret.n < MaxCalls
    /\ out.handler = "none"
    /\ spm_ti.has_clusters
    /\ \E c \in 1..Len(spm_ti.clusters) :
          ret' = [op |-> "get_spm_cluster_params", err |-> FALSE, k |-> 0,
                  n |-> ret.n + 1, c |-> c, before |-> spm_ti, none |-> FALSE,
                  columns |-> <<get_spm_cluster_params(spm_ti.clusters[c], spm_ti.alpha,
                                                       spm_ti.zstar)>>,
                  earlier |-> Earlier]
    /\ UNCHANGED <<pre_data, post_data, pre_in, post_in, out, batch, spm_ti>>

---------------------------------------------------------------------------
(* plotting.py: the annotation of a plotted test *)

\* The first index holding the largest value
ArgMax(a) ==
    CHOOSE k \in 1..Len(a) :
        /\ \A j \in 1..Len(a) : RLe(a[j], a[k])
        /\ \A i \in 1..(k - 1) : RLt(a[i], a[k])

\* np.argmin of a non-empty 1D array: the first index holding the smallest value
ArgMin(a) ==
    CHOOSE k \in 1..Len(a) :
        /\ \A j \in 1..Len(a) : RLe(a[k], a[j])
        /\ \A i \in 1..(k - 1) : RLt(a[k], a[i])

\* get_annotation_text(ti, ti_params_df): the values placed in the annotation, before
\* they are formatted, and the table they were read from. Without a parameter table or without clusters only two values
\* are written, ti.zstar under the label alpha and ti.alpha under the label t*.
get_annotation_text(ti_obj, ti_params_df) ==
    IF ti_params_df.none \/ ~ti_obj.has_clusters \/ Len(ti_obj.clusters) = 0
    THEN [handler |-> "get_annotation_text", summary |-> FALSE, table |-> <<>>,
          alpha |-> ti_obj.zstar, threshold |-> ti_obj.alpha,
          p |-> Zero, t_start |-> Zero, t_end |-> Zero, maximum |-> Zero, area |-> Zero]
    ELSE LET ti_params == ti_params_df.columns
             c_min == ArgMin([c \in 1..Len(ti_params) |-> ti_params[c].p])
         IN  [handler |-> "get_annotation_text", summary |-> TRUE, table |-> ti_params,
              alpha |-> ti_obj.alpha, threshold |-> ti_obj.zstar,
              p |-> ti_params[c_min].p,
              t_start |-> ti_params[c_min].tstart,
              t_end |-> ti_params[c_min].tend,
              maximum |-> ti_params[c_min].maximum,
              area |-> ti_params[c_min].area_above_threshold]

\* get_annotation_text is called with the table the last _get_ti_parameters_as_df call
\* returned, or with no table.
GetAnnotationTextCall ==
    /\ out.handler = "none"
    /\ LET ti_params_df == IF ret.op = "get_ti_parameters_as_df"
                           THEN [none |-> ret.none, columns |-> ret.columns]
                           ELSE [none |-> TRUE, columns |-> <<>>]
       IN  out' = get_annotation_text(spm_ti, ti_params_df)
    /\ UNCHANGED <<pre_data, post_data, pre_in, post_in, ret, batch, spm_ti>>

NextParams ==
    \/ GetTiParametersCall
    \/ GetParamsOfClusterCall
    \/ GetSpmClusterParamsCall
    \/ GetAnnotationTextCall

SpecParams == InitParams /\ [][NextParams]_vars

---------------------------------------------------------------------------
(* Properties of shape_accomodation.py, checked under SpecShape *)

\* The narrower and the wider argument of a match_cols call
Narrower == IF pre_data.cols < post_data.cols THEN pre_data ELSE post_data
Wider == IF pre_data.cols < post_data.cols THEN post_data ELSE pre_data
\* What match_cols returned in place of the narrower and of the wider argument
RetNarrower == IF pre_data.cols < post_data.cols THEN ret.pre ELSE ret.post
RetWider == IF pre_data.cols < post_data.cols THEN ret.post ELSE ret.pre

\* Whether `a` holds exactly the first n rows of `b`, values unchanged
IsHeadOf(a, b, n) ==
    /\ a.rows = n
    /\ a.cols = b.cols
    /\ DOMAIN a.v = 1..n
    /\ \A i \in 1..n : a.v[i] = b.v[i]

\* x lies in [m - 0.1*|m|, m + 0.1*|m|]
WithinTenth(x, m) ==
    LET tenth == RDivInt(RAbs(m), 10)
    IN  RLe(RSub(m, tenth), x) /\ RLe(x, RAdd(m, tenth))

\* C4: every value match_cols places in an added column lies within
\* mean - 0.1*|mean| and mean + 0.1*|mean| of the mean over the original columns of
\* the narrower ensemble at that row, whatever the draw and the sign of the mean.
C4_SynthesisBound ==
    (ret.op = "match_cols" /\ ~ret.err /\ pre_data.cols # post_data.cols) =>
        \A i \in 1..Min(Narrower.rows, RetNarrower.rows) :
            \A j \in (Narrower.cols + 1)..Wider.cols :
                WithinTenth(RetNarrower.v[i][j], RMean(Narrower.v[i]))

\* A match_cols call that added a column holding, in a row of negative mean, a value
\* above the mean and, in another row, a zero mean.
C4_Witness ==
    /\ ret.op = "match_cols" /\ ~ret.err /\ pre_data.cols # post_data.cols
    /\ \E i \in 1..Narrower.rows :
          /\ RLt(RMean(Narrower.v[i]), Zero)
          /\ RLt(RMean(Narrower.v[i]), RetNarrower.v[i][Wider.cols])
    /\ \E i \in 1..Narrower.rows : RMean(Narrower.v[i]) = Zero

\* C5: with equal row counts and different column counts, match_cols returns the wider
\* ensemble unchanged and the narrower one widened to the wider one's column count,
\* its c original columns unchanged in their positions (only the columns after them
\* are new).
C5_MatchColsFrame ==
    (ret.op = "match_cols" /\ pre_data.rows = post_data.rows
        /\ pre_data.cols # post_data.cols) =>
        /\ ~ret.err
        /\ RetWider = Wider
        /\ Shape(RetNarrower) = Shape(Wider)
        /\ DOMAIN RetNarrower.v = 1..Wider.rows
        /\ \A i \in 1..Narrower.rows :
              /\ DOMAIN RetNarrower.v[i] = 1..Wider.cols
              /\ \A j \in 1..Narrower.cols : RetNarrower.v[i][j] = Narrower.v[i][j]

\* A match_cols call that widened a two-column ensemble to three columns.
C5_Witness ==
    /\ ret.op = "match_cols" /\ ~ret.err
    /\ pre_data.rows = post_data.rows
    /\ Narrower.cols = 2 /\ Wider.cols = 3
    /\ RetNarrower.cols = 3
    /\ Narrower.rows = 2

\* C7: match_rows returns the ensemble with more rows cut to its first n rows (n the
\* smaller row count), values unchanged, and the other ensemble unchanged; with equal
\* row counts both are returned unchanged.
C7_MatchRows ==
    (ret.op = "match_rows") =>
        /\ ~ret.err
        /\ pre_data.rows < post_data.rows =>
              ret.pre = pre_data /\ IsHeadOf(ret.post, post_data, pre_data.rows)
        /\ pre_data.rows > post_data.rows =>
              ret.post = post_data /\ IsHeadOf(ret.pre, pre_data, post_data.rows)
        /\ pre_data.rows = post_data.rows =>
              ret.pre = pre_data /\ ret.post = post_data

\* A match_rows call that cut the pre-exercise ensemble to fewer rows.
C7_Witness ==
    /\ ret.op = "match_rows"
    /\ pre_data.rows > post_data.rows
    /\ ret.pre.rows = post_data.rows
    /\ ret.pre # pre_data

---------------------------------------------------------------------------
(* Properties of the filter-artefact correction, checked under SpecArtefact *)

ArtefactOps == {"_remove_spm_significance_from_filter_artefact", "fix_false_spm_significance"}

\* All values of the first k rows, column after column
RECURSIVE WindowValues(_, _, _)
WindowValues(data, k, j) ==
    IF j > data.cols THEN <<>>
    ELSE [i \in 1..Min(k, data.rows) |-> data.v[i][j]] \o WindowValues(data, k, j + 1)

\* The mean of the first k rows over all columns: the sum of the values by their count
WindowMean(data, k) == RMean(WindowValues(data, k, 1))

\* C2: whenever the mean of the first k rows over all columns of the comparison (post)
\* ensemble is strictly greater than that of the baseline (pre) ensemble, the corrected
\* comparison ensemble has exactly the baseline's head-window mean.
C2_MeansEqualAfterCorrection ==
    (ret.op \in ArtefactOps /\ RLt(WindowMean(pre_in, ret.k), WindowMean(post_in, ret.k))) =>
        WindowMean(ret.post, ret.k) = WindowMean(pre_in, ret.k)

\* A correction of a comparison ensemble with rows beyond the averaging window whose
\* head-window mean was greater than the baseline's, a fractional difference removed.
C2_Witness ==
    /\ ret.op \in ArtefactOps
    /\ RLt(WindowMean(pre_in, ret.k), WindowMean(post_in, ret.k))
    /\ post_in.rows > ret.k
    /\ ret.post # post_in
    /\ RSub(WindowMean(post_in, ret.k), WindowMean(pre_in, ret.k))[2] > 1

\* The head-window mean as the called function computes it
HeadMean(data) ==
    IF ret.op = "fix_false_spm_significance"
    THEN ArrayMean(HeadRows(data, ret.k))
    ELSE DataFrameMean(HeadRows(data, ret.k))

\* The largest absolute value of an ensemble
AbsMax(data) ==
    LET cells == {data.v[i][j] : i \in 1..data.rows, j \in 1..data.cols}
    IN  RAbs(CHOOSE x \in cells : \A y \in cells : RLe(RAbs(y), RAbs(x)))

\* The rounding error that `ops` floating-point operations on numbers of magnitude at
\* most m can add up to: ops * m * 2^-Precision
RoundingBound(ops, m) == RDivInt(RMul(FromInt(ops), m), Pow2(Precision))

\* The operations behind the head-window mean of a corrected ensemble: the sums and
\* divisions of two means, the difference d and one subtraction per value
MeanOps(data) == 2 * (Min(ret.k, data.rows) * data.cols + data.cols + 1) + 2

\* C2, amended: whenever the head-window mean of the comparison ensemble is strictly
\* greater than the baseline's, the head-window mean of the corrected comparison
\* ensemble equals the baseline's up to the rounding of the floating-point operations
\* that produce it.
C2_MeansEqualUpToRounding ==
    (ret.op \in ArtefactOps /\ RLt(HeadMean(pre_in), HeadMean(post_in))) =>
        LET m == IF RLe(AbsMax(post_in), AbsMax(ret.post)) THEN AbsMax(ret.post)
                 ELSE AbsMax(post_in)
        IN  RLe(RAbs(RSub(HeadMean(ret.post), HeadMean(pre_in))),
                RoundingBound(MeanOps(post_in), m))

\* C3: whenever the head-window mean of the comparison (post) ensemble is less than or
\* equal to that of the baseline (pre) ensemble, the comparison ensemble is returned
\* with every value unchanged.
C3_NoCorrectionDownwards ==
    (ret.op \in ArtefactOps /\ RLe(WindowMean(post_in, ret.k), WindowMean(pre_in, ret.k))) =>
        ret.post = post_in

\* A call with the comparison head-window mean strictly below the baseline's, and one
\* returned ensemble equal to the one passed.
C3_Witness ==
    /\ ret.op \in ArtefactOps
    /\ RLt(WindowMean(post_in, ret.k), WindowMean(pre_in, ret.k))
    /\ post_in # pre_in
    /\ ret.post = post_in

\* C21: artefact correction has no side effects on its inputs: the baseline is
\* returned equal to the one passed, and the matrices the caller passed hold the same
\* values after the call as before it.
C21_NoSideEffects ==
    ret.op \in ArtefactOps =>
        /\ ret.pre = pre_in
        /\ pre_data = pre_in
        /\ post_data = post_in

\* The scalar the called function subtracts: the rounded difference of the two
\* head-window means it computed
Correction == FSub(HeadMean(post_in), HeadMean(pre_in))

\* The pairs of cells of an ensemble
CellPairs(data) ==
    {<<i, j, k, l>> : i \in 1..data.rows, j \in 1..data.cols,
                      k \in 1..data.rows, l \in 1..data.cols}

\* C22, as stated: when a correction is applied, the difference between any two
\* values of the comparison ensemble is the same before and after the correction.
C22_DifferencesPreserved ==
    (ret.op \in ArtefactOps /\ RLt(HeadMean(pre_in), HeadMean(post_in))) =>
        /\ Shape(ret.post) = Shape(post_in)
        /\ \A c \in CellPairs(post_in) :
              RSub(ret.post.v[c[1]][c[2]], ret.post.v[c[3]][c[4]])
                  = RSub(post_in.v[c[1]][c[2]], post_in.v[c[3]][c[4]])

\* C22, amended: when a correction is applied, every value of the corrected comparison
\* ensemble, in every row (inside and outside the head window) and every column, is
\* the floating-point difference of the value passed and one and the same scalar
\* d = comparison_mean - baseline_mean.
C22_SameScalarEverywhere ==
    (ret.op \in ArtefactOps /\ RLt(HeadMean(pre_in), HeadMean(post_in))) =>
        /\ Shape(ret.post) = Shape(post_in)
        /\ LET d == Correction
           IN  \A i \in 1..post_in.rows : \A j \in 1..post_in.cols :
                   ret.post.v[i][j] = FSub(post_in.v[i][j], d)

\* A corrected ensemble with rows outside the head window and more than one column,
\* whose last value changed.
C22_Witness ==
    /\ ret.op \in ArtefactOps
    /\ RLt(HeadMean(pre_in), HeadMean(post_in))
    /\ post_in.rows > ret.k
    /\ post_in.cols > 1
    /\ ret.post.v[post_in.rows][post_in.cols] # post_in.v[post_in.rows][post_in.cols]

\* C27, as stated: applying the correction to the pair it returned yields the same
\* pair again.
C27_Idempotent ==
    out.handler = "again" => out.pre = ret.pre /\ out.post = ret.post

\* C27, amended: applying the correction to the pair it returned yields the same
\* baseline and a comparison ensemble of the same shape whose values differ from the
\* returned ones by at most the rounding of the operations behind the head-window
\* mean; when the first application subtracted nothing, the second returns the same
\* pair.
C27_IdempotentUpToRounding ==
    out.handler = "again" =>
        /\ out.pre = ret.pre
        /\ Shape(out.post) = Shape(ret.post)
        /\ ret.post = post_in => out.post = ret.post
        /\ LET m == IF RLe(AbsMax(post_in), AbsMax(out.post)) THEN AbsMax(out.post)
                    ELSE AbsMax(post_in)
           IN  \A i \in 1..ret.post.rows : \A j \in 1..ret.post.cols :
                   RLe(RAbs(RSub(out.post.v[i][j], ret.post.v[i][j])),
                       RoundingBound(MeanOps(post_in) + 1, m))

\* A second application after a first one that subtracted something, and one after a
\* first one whose rounding left something to subtract.
C27_Witness ==
    /\ out.handler = "again"
    /\ ret.post # post_in
    /\ out.post # ret.post

---------------------------------------------------------------------------
(* Properties of SPMInterface, checked under Spec *)

ValidEnsemble(data) == data.rows >= 1 /\ data.cols >= 1

\* C1: for every pair of ensembles with at least one row and one column each, when
\* reconciliation (reshape_data) has completed, the two ensembles have the same row
\* count and the same column count, also when both counts differed.
C1_ShapeInvariant ==
    (out.handler = "compare" /\ out.reshaped /\ ~out.raised
        /\ ValidEnsemble(pre_in) /\ ValidEnsemble(post_in)) =>
        Shape(pre_data) = Shape(post_data)

\* C6 as stated: reconciling two ensembles of identical shape returns both unchanged,
\* for every column count of one or more.
C6_Idempotent ==
    (out.handler = "compare" /\ out.reshaped /\ Shape(pre_in) = Shape(post_in)) =>
        /\ ~out.raised
        /\ pre_data = pre_in
        /\ post_data = post_in

\* Whether `a` is `b` widened to the fixed five columns: the same rows, b's columns
\* first and unchanged.
IsFixedWidthOf(a, b) ==
    /\ a.rows = b.rows
    /\ a.cols = FixedCols
    /\ \A i \in 1..b.rows : \A j \in 1..b.cols : a.v[i][j] = b.v[i][j]

\* C6 amended: reconciling two ensembles of identical shape with two or more columns
\* returns both unchanged; when both have exactly one column, each is returned with
\* five columns, its row count and its original column (as the first) unchanged.
C6_IdempotentFromTwoColumns ==
    (out.handler = "compare" /\ out.reshaped /\ Shape(pre_in) = Shape(post_in)) =>
        /\ ~out.raised
        /\ pre_in.cols >= 2 => pre_data = pre_in /\ post_data = post_in
        /\ pre_in.cols = 1 =>
              IsFixedWidthOf(pre_data, pre_in) /\ IsFixedWidthOf(post_data, post_in)

\* A compare on two ensembles of two rows and two columns each, left as they were.
C6_Witness ==
    /\ out.handler = "compare" /\ out.reshaped /\ ~out.raised
    /\ Shape(pre_in) = <<2, 2>> /\ Shape(post_in) = <<2, 2>>
    /\ pre_in # post_in
    /\ pre_data = pre_in /\ post_data = post_in

\* C8: when either stored ensemble has no rows or no columns, compare, export_tcurve
\* and export_tparams return at the null check: nothing is reshaped, no statistic is
\* computed, nothing is plotted, no file is written and the stored ensembles stay as
\* they were.
C8_NullInputNoOutput ==
    (out.handler # "none"
        /\ (pre_in.rows = 0 \/ pre_in.cols = 0 \/ post_in.rows = 0 \/ post_in.cols = 0)) =>
        /\ out.null
        /\ ~out.reshaped /\ ~out.stat /\ ~out.plot /\ ~out.file
        /\ pre_data = pre_in /\ post_data = post_in

\* A compare that returned at the null check because the post-exercise array has
\* rows but no columns, the pre-exercise one being a valid ensemble.
C8_Witness ==
    /\ out.handler = "compare" /\ out.null
    /\ ValidEnsemble(pre_in)
    /\ post_in.rows >= 1 /\ post_in.cols = 0

---------------------------------------------------------------------------
(* Properties of the batch drivers, checked under SpecBatch *)

\* C9: when the delegated statistic or inference call raises, the failure is reported
\* and no partial result is kept: _get_spm_t_ti_paired_ttest returns a continuum and
\* its inference together or neither, and _perform_spm_analysis writes neither a
\* parameter file nor a plot for that pair.
C9_NoPartialResult ==
    batch.pc # "idle" =>
        \A n \in 1..batch.i :
            /\ (batch.got[n].t = "None") <=> (batch.got[n].ti = "None")
            /\ batch.pairs[n] \in Failing =>
                  /\ batch.got[n].t = "None"
                  /\ n \in batch.log
                  /\ n \notin batch.files
                  /\ n \notin batch.plots

\* A pair whose continuum was computed and whose inference raised has been analysed.
C9_Witness ==
    /\ batch.pc # "idle"
    /\ \E n \in 1..batch.i :
          /\ batch.pairs[n] = "inference_raises"
          /\ batch.got[n] = [t |-> "None", ti |-> "None"]
          /\ n \in batch.log

\* C10: in a batch run a failure of the inference for one pair is isolated to that
\* pair: once the run has ended, every later pair (whose own inference does not fail)
\* has been analysed and has its parameter file and its plot.
C10_FailureIsolated ==
    batch.pc \in {"done", "aborted"} =>
        \A m \in 1..Len(batch.pairs) : \A n \in (m + 1)..Len(batch.pairs) :
            (batch.pairs[m] \in Failing /\ batch.pairs[n] \in {"no_clusters", "clusters"}) =>
                /\ n <= batch.i
                /\ n \in batch.files
                /\ n \in batch.plots

\* C11: when the inference reports no cluster, as an empty list or as None, the
\* analysis of that pair completes: its parameter file and its plot are written and
\* no exception leaves _perform_spm_analysis.
C11_NoClusterPassThrough ==
    batch.pc # "idle" =>
        \A n \in 1..batch.i :
            batch.pairs[n] \in {"no_clusters", "clusters_none"} =>
                /\ n \in batch.files
                /\ n \in batch.plots
                /\ ~(batch.pc = "aborted" /\ batch.i = n)

---------------------------------------------------------------------------
(* Properties of the cluster parameterizer, checked under SpecParams *)

ParamCalls == {"get_ti_parameters_as_df", "get_params_of_spm_cluster"}

\* The cluster, as it was before the last call, that column j of the result describes
ClusterOfColumn(j) ==
    IF ret.c # 0 THEN ret.before.clusters[ret.c] ELSE ret.before.clusters[j]

\* The statistic of cluster c is one constant over times that begin at 0
ConstantFromZero(c) ==
    /\ c.X[1] = Zero
    /\ \A n \in 1..Len(c.Z) : c.Z[n] = c.Z[1]

Duration(c) == RSub(c.X[Len(c.X)], c.X[1])

\* C12 as stated: for a cluster of constant statistic v over times spanning [0, T],
\* area_above_axis is v*T and area_above_threshold is (v - threshold)*T.
C12_ConstantArea ==
    ret.op \in ParamCalls =>
        \A j \in 1..Len(ret.columns) :
            LET c == ClusterOfColumn(j)
                v == c.Z[1]
            IN  ConstantFromZero(c) =>
                    /\ ret.columns[j].area_above_x = RMul(v, Duration(c))
                    /\ ret.columns[j].area_above_threshold =
                           RMul(RSub(v, ret.columns[j].threshold), Duration(c))

\* C12, amended: for a cluster of constant statistic v over times spanning [0, T],
\* area_above_axis is |v|*T and area_above_threshold is (|v| - threshold)*T, which
\* are v*T and (v - threshold)*T when v is not negative.
C12_ConstantAreaAbsolute ==
    ret.op \in ParamCalls =>
        \A j \in 1..Len(ret.columns) :
            LET c == ClusterOfColumn(j)
                v == c.Z[1]
            IN  ConstantFromZero(c) =>
                    /\ ret.columns[j].area_above_x = RMul(RAbs(v), Duration(c))
                    /\ ret.columns[j].area_above_threshold =
                           RMul(RSub(RAbs(v), ret.columns[j].threshold), Duration(c))
                    /\ RLe(Zero, v) =>
                           ret.columns[j].area_above_x = RMul(v, Duration(c))

\* A cluster of three samples of one negative value, its times beginning at 0, has been
\* parameterized with a non-zero time_offset.
C12_Witness ==
    /\ ret.op \in ParamCalls
    /\ ret.k # 0
    /\ \E j \in 1..Len(ret.columns) :
          LET c == ClusterOfColumn(j)
          IN  ConstantFromZero(c) /\ Len(c.X) = 3 /\ RLt(c.Z[1], Zero)

\* The grid was offset by an earlier call: the cluster's times no longer begin at its
\* reported start
ShiftedBefore(c) == c.X[1] # c.endpoints[1]

\* C13: the parameter table has exactly one column per reported cluster, the k-th
\* column derived from the k-th cluster; the reported clusters being ascending and
\* non-overlapping, so are the columns, for every time_offset.
C13_OneRecordPerClusterInOrder ==
    (ret.op = "get_ti_parameters_as_df" /\ ~ret.none) =>
        /\ Len(ret.columns) = Len(ret.before.clusters)
        /\ \A k \in 1..Len(ret.columns) :
              LET c == ret.before.clusters[k]
              IN  /\ ret.columns[k].p = c.P
                  /\ ret.columns[k].tstart = FAdd(c.endpoints[1], FromInt(ret.k))
                  /\ ret.columns[k].tend = FAdd(c.endpoints[2], FromInt(ret.k))
                  /\ ret.columns[k].centroid_t = c.centroid[2]
                  /\ ret.columns[k].maximum = RMax(c.Z)
        /\ \A k \in 1..Len(ret.columns) : \A m \in (k + 1)..Len(ret.columns) :
              /\ RLe(ret.columns[k].tstart, ret.columns[k].tend)
              /\ RLt(ret.columns[k].tend, ret.columns[m].tstart)

\* A table of two columns for two clusters that differ in probability and maximum,
\* computed with a non-zero time_offset.
C13_Witness ==
    /\ ret.op = "get_ti_parameters_as_df" /\ ~ret.none
    /\ ret.k # 0
    /\ Len(ret.columns) = 2
    /\ ret.columns[1].p # ret.columns[2].p
    /\ ret.columns[1].maximum # ret.columns[2].maximum

\* C14: the reported start time, end time and centroid time are the values the
\* inference reported plus time_offset, added once (one floating-point addition); the
\* probability is the reported one.
C14_OffsetOnce ==
    ret.op \in ParamCalls =>
        \A j \in 1..Len(ret.columns) :
            LET c == ClusterOfColumn(j)
            IN  /\ ret.columns[j].tstart = FAdd(c.endpoints[1], FromInt(ret.k))
                /\ ret.columns[j].tend = FAdd(c.endpoints[2], FromInt(ret.k))
                /\ ret.columns[j].centroid_time = FAdd(c.centroid[1], FromInt(ret.k))
                /\ ret.columns[j].p = c.P

\* A second parameterization with a non-zero time_offset of a cluster whose grid an
\* earlier call had already offset.
C14_Witness ==
    /\ ret.op \in ParamCalls
    /\ ret.n = 2
    /\ ret.k # 0
    /\ \E j \in 1..Len(ret.columns) :
          /\ ShiftedBefore(ClusterOfColumn(j))
          /\ ret.columns[j].p # Zero

\* C15: computing the parameters of a cluster leaves the cluster object as it was: its
\* time subsequence, value subsequence, endpoints, centroid and probability are what
\* they were before the call, for every time_offset.
C15_NoSideEffect ==
    ret.op \in ParamCalls => spm_ti = ret.before

\* C16: every column of one table carries the alpha the inference was configured with
\* and the critical value zstar it returned.
C16_SharedAlphaThreshold ==
    (ret.op = "get_ti_parameters_as_df" /\ ~ret.none) =>
        \A k \in 1..Len(ret.columns) :
            /\ ret.columns[k].alpha = ret.before.alpha
            /\ ret.columns[k].threshold = ret.before.zstar

\* A table of two columns has been computed.
C16_Witness ==
    /\ ret.op = "get_ti_parameters_as_df" /\ ~ret.none
    /\ Len(ret.columns) = 2
    /\ ret.before.alpha # ret.before.zstar

\* C17: an annotation that summarizes a table of several clusters takes its p-value,
\* start time, end time, maximum and area from one column, and no column has a
\* smaller probability than that one.
C17_AnnotationSmallestP ==
    (out.handler = "get_annotation_text" /\ out.summary) =>
        \E c \in 1..Len(out.table) :
            /\ out.p = out.table[c].p
            /\ out.t_start = out.table[c].tstart
            /\ out.t_end = out.table[c].tend
            /\ out.maximum = out.table[c].maximum
            /\ out.area = out.table[c].area_above_threshold
            /\ \A j \in 1..Len(out.table) : RLe(out.table[c].p, out.table[j].p)

\* An annotation of a table of two clusters, the second of smaller probability.
C17_Witness ==
    /\ out.handler = "get_annotation_text" /\ out.summary
    /\ Len(out.table) = 2
    /\ RLt(out.table[2].p, out.table[1].p)
    /\ out.t_start = out.table[2].tstart

AreaCalls == ParamCalls \cup {"get_spm_cluster_params"}

\* The sum over consecutive point pairs of |0.5*(v[k] + v[k-1])| * (t[k] - t[k-1]),
\* in floating-point operations, the pairs taken in ascending order
TrapezoidSum(t, v) ==
    FSumTo([k \in 1..(Len(t) - 1) |->
                FMul(RAbs(FMul(Rat(1, 2), FAdd(v[k + 1], v[k]))), FSub(t[k + 1], t[k]))],
           Len(t) - 1)

\* The times of cluster c as the called function reads them: the current
\* parameterizer adds time_offset to them first
TimesRead(c) == [n \in 1..Len(c.X) |-> FAdd(c.X[n], FromInt(ret.k))]

\* C20: for every cluster, in the current and in the earlier parameterizer,
\* area_above_axis is the trapezoid sum of the absolute means of neighbouring values
\* and area_above_threshold is area_above_axis minus threshold times the time between
\* the first and the last point of the cluster.
C20_AreaFormulas ==
    ret.op \in AreaCalls =>
        \A j \in 1..Len(ret.columns) :
            LET c == ClusterOfColumn(j)
                t == TimesRead(c)
            IN  /\ ret.columns[j].area_above_x = TrapezoidSum(t, c.Z)
                /\ ret.columns[j].area_above_threshold =
                       FSub(ret.columns[j].area_above_x,
                            FMul(ret.columns[j].threshold, FSub(t[Len(t)], t[1])))

\* A cluster that begins with an interpolated point, of values on both sides of zero,
\* has been parameterized and its area above the threshold is negative.
C20_Witness ==
    /\ ret.op \in AreaCalls
    /\ \E j \in 1..Len(ret.columns) :
          LET c == ClusterOfColumn(j)
          IN  /\ Len(c.X) = 3
              /\ RSub(c.X[2], c.X[1]) # RSub(c.X[3], c.X[2])
              /\ RLt(c.Z[3], Zero)
              /\ RLt(ret.columns[j].area_above_threshold, Zero)

\* The ten values of a returned list, in the order of the list
ParamList(p) ==
    <<p.alpha, p.threshold, p.p, p.tstart, p.tend, p.centroid_time, p.centroid_t,
      p.maximum, p.area_above_threshold, p.area_above_x>>

\* The last two calls were the same function on the same cluster object (or the same
\* inference object) with the same time_offset
SameCallTwice ==
    /\ ret.n = 2
    /\ ret.op \in ParamCalls
    /\ ret.earlier.op = ret.op
    /\ ret.earlier.c = ret.c
    /\ ret.earlier.k = ret.k

\* The cluster, as the last call left it, that column j of the result describes
ClusterNow(j) == IF ret.c # 0 THEN spm_ti.clusters[ret.c] ELSE spm_ti.clusters[j]

\* Every time of cluster c is a whole number, so that adding a whole time_offset to
\* it is exact
WholeTimes(c) == \A n \in 1..Len(c.X) : c.X[n][2] = 1

\* The largest absolute statistic value of cluster c, or the threshold if that is
\* larger
ValueMax(c, threshold) ==
    LET z == RMax([n \in 1..Len(c.Z) |-> RAbs(c.Z[n])])
    IN  IF RLe(z, RAbs(threshold)) THEN RAbs(threshold) ELSE z

\* The difference that the rounding of one more offset of the grid can make to an
\* area: with N points, times up to G and values up to Z, the offset changes each
\* interval by at most 4 roundings of G, each of the N - 1 terms by at most 6
\* roundings of Z*G, the running sum by at most 2*(N - 1) more and the threshold's
\* share by at most 8
AreaTolerance(j) ==
    LET c == ClusterNow(j)
        N == Len(c.X)
    IN  RoundingBound(2 * N * (N + 1) + 4,
                      RMul(ValueMax(c, ret.columns[j].threshold), RAbs(c.X[N])))

\* C28, as stated: parameterizing the same cluster object twice with the same alpha,
\* threshold and time_offset returns the same ten values both times, for every
\* time_offset.
C28_SameValuesTwice ==
    SameCallTwice =>
        /\ Len(ret.columns) = Len(ret.earlier.columns)
        /\ \A j \in 1..Len(ret.columns) :
              ParamList(ret.columns[j]) = ParamList(ret.earlier.columns[j])

\* C28, amended: parameterizing the same cluster object twice with the same alpha,
\* threshold and time_offset returns the same first eight values both times (alpha,
\* threshold, probability, start, end and centroid time, centroid value, maximum),
\* for every time_offset; the two areas are the same when time_offset is 0 or the
\* cluster's times are whole numbers, and otherwise equal up to the rounding of the
\* offset that each call adds to the cluster's times.
C28_SameUpToRounding ==
    SameCallTwice =>
        /\ Len(ret.columns) = Len(ret.earlier.columns)
        /\ \A j \in 1..Len(ret.columns) :
              LET a == ParamList(ret.columns[j])
                  b == ParamList(ret.earlier.columns[j])
              IN  /\ \A i \in 1..8 : a[i] = b[i]
                  /\ (ret.k = 0 \/ WholeTimes(ClusterOfColumn(j))) => a = b
                  /\ \A i \in {9, 10} : RLe(RAbs(RSub(a[i], b[i])), AreaTolerance(j))

\* The same cluster, with an interpolated first point and a non-zero area, has been
\* parameterized twice with a non-zero time_offset; the first call offset its grid.
C28_Witness ==
    /\ SameCallTwice
    /\ ret.op = "get_params_of_spm_cluster"
    /\ ret.k # 0
    /\ ShiftedBefore(ret.before.clusters[ret.c])
    /\ Len(ret.before.clusters[ret.c].X) >= 2
    /\ ret.columns[1].area_above_x # Zero

\* The last two calls were the current and the earlier parameterizer, in either order,
\* on the same cluster object
BothParameterizers ==
    /\ ret.n = 2
    /\ ret.c = ret.earlier.c
    /\ {ret.op, ret.earlier.op} = {"get_params_of_spm_cluster", "get_spm_cluster_params"}

\* C29, as stated: for every cluster, alpha and threshold, _get_params_of_spm_cluster
\* returns the ten values of get_spm_cluster_params in the same order, except that
\* start time, end time and centroid time are each greater by exactly time_offset;
\* with time_offset = 0 the two lists are equal.
C29_CurrentMatchesLegacy ==
    BothParameterizers =>
        LET current == IF ret.op = "get_params_of_spm_cluster" THEN ret ELSE ret.earlier
            legacy == IF ret.op = "get_params_of_spm_cluster" THEN ret.earlier ELSE ret
            cur == ParamList(current.columns[1])
            leg == ParamList(legacy.columns[1])
            d == FromInt(current.k)
        IN  /\ \A i \in {1, 2, 3, 7, 8, 9, 10} : cur[i] = leg[i]
            /\ \A i \in {4, 5, 6} : cur[i] = RAdd(leg[i], d)
            /\ current.k = 0 => cur = leg

\* C29, amended: with time_offset = 0 the current parameterizer returns the ten
\* values of the earlier one, in the same order; for a non-zero offset alpha,
\* threshold, probability, centroid value and maximum are the same, start time, end
\* time and centroid time are the floating-point sum of the earlier value and
\* time_offset, and the two areas are the same when the cluster's times are whole
\* numbers and otherwise equal up to the rounding of the offset added to the times.
C29_CurrentMatchesLegacyUpToRounding ==
    BothParameterizers =>
        LET current == IF ret.op = "get_params_of_spm_cluster" THEN ret ELSE ret.earlier
            legacy == IF ret.op = "get_params_of_spm_cluster" THEN ret.earlier ELSE ret
            cur == ParamList(current.columns[1])
            leg == ParamList(legacy.columns[1])
            d == FromInt(current.k)
        IN  /\ \A i \in {1, 2, 3, 7, 8} : cur[i] = leg[i]
            /\ \A i \in {4, 5, 6} : cur[i] = FAdd(leg[i], d)
            /\ current.k = 0 => cur = leg
            /\ WholeTimes(ClusterOfColumn(1)) =>
                   \A i \in {9, 10} : cur[i] = leg[i]
            /\ \A i \in {9, 10} : RLe(RAbs(RSub(cur[i], leg[i])), AreaTolerance(1))

\* The current parameterizer with a non-zero time_offset and then the earlier one
\* have been called on a cluster with an interpolated first point and distinct
\* centroid coordinates.
C29_Witness ==
    /\ BothParameterizers
    /\ ret.op = "get_spm_cluster_params"
    /\ ret.earlier.k # 0
    /\ ShiftedBefore(ret.before.clusters[ret.c])
    /\ ret.columns[1].centroid_time # ret.columns[1].centroid_t
    /\ ret.columns[1].area_above_x # Zero

\* The times of cluster c do not decrease
NonDecreasing(c) == \A n \in 2..Len(c.X) : RLe(c.X[n - 1], c.X[n])

\* Every statistic value of cluster c is at least the threshold, which is at least 0
AboveThreshold(c, threshold) ==
    /\ RLe(Zero, threshold)
    /\ \A n \in 1..Len(c.Z) : RLe(threshold, c.Z[n])

\* The threshold and every statistic value of cluster c are whole numbers
WholeValues(c, threshold) ==
    /\ threshold[2] = 1
    /\ \A n \in 1..Len(c.Z) : c.Z[n][2] = 1

\* C30, as stated: for every cluster with non-decreasing times area_above_axis is at
\* least 0, and exactly 0 for a single-point cluster; if in addition every statistic
\* value of the cluster is at least the threshold and the threshold is at least 0,
\* area_above_threshold is at least 0 and the reported maximum is at least the
\* threshold.
C30_AreaSigns ==
    ret.op \in ParamCalls =>
        \A j \in 1..Len(ret.columns) :
            LET c == ClusterOfColumn(j)
                p == ret.columns[j]
            IN  NonDecreasing(c) =>
                    /\ RLe(Zero, p.area_above_x)
                    /\ Len(c.X) = 1 => p.area_above_x = Zero
                    /\ (/\ RLe(Zero, p.threshold)
                        /\ \A n \in 1..Len(c.Z) : RLe(p.threshold, c.Z[n])) =>
                           /\ RLe(Zero, p.area_above_threshold)
                           /\ RLe(p.threshold, p.maximum)

\* C30, amended: for every cluster with non-decreasing times area_above_axis is at
\* least 0, and exactly 0 for a single-point cluster; if in addition every statistic
\* value of the cluster is at least the threshold and the threshold is at least 0,
\* the reported maximum is at least the threshold and area_above_threshold is at
\* least 0 up to the rounding of the operations that produce it: it is not below 0
\* when the times, the values and the threshold are whole numbers, and otherwise not
\* below 0 by more than the rounding error.
C30_AreaSignsUpToRounding ==
    ret.op \in ParamCalls =>
        \A j \in 1..Len(ret.columns) :
            LET c == ClusterOfColumn(j)
                p == ret.columns[j]
            IN  NonDecreasing(c) =>
                    /\ RLe(Zero, p.area_above_x)
                    /\ Len(c.X) = 1 => p.area_above_x = Zero
                    /\ AboveThreshold(c, p.threshold) =>
                           /\ RLe(p.threshold, p.maximum)
                           /\ RLe(RSub(Zero, AreaTolerance(j)), p.area_above_threshold)
                           /\ (WholeTimes(c) /\ WholeValues(c, p.threshold)) =>
                                  RLe(Zero, p.area_above_threshold)

\* A table of a single-point cluster and of a cluster whose values are all at least
\* the threshold, with a positive area above the threshold, after an earlier call
\* offset the grids.
C30_Witness ==
    /\ ret.op = "get_ti_parameters_as_df" /\ ~ret.none
    /\ ret.n = 2
    /\ Len(ret.columns) = 2
    /\ Len(ret.before.clusters[1].X) = 1
    /\ ret.columns[1].area_above_x = Zero
    /\ \A n \in 1..Len(ret.before.clusters[2].Z) :
          RLe(ret.columns[2].threshold, ret.before.clusters[2].Z[n])
    /\ RLt(Zero, ret.columns[2].area_above_threshold)

---------------------------------------------------------------------------
(* Further properties of reshape_data, checked under Spec *)

\* Whether `a` holds, in its rows, the first column of `b` followed by four columns of
\* values within a tenth of b's row mean
IsSynthesizedFrom(a, b) ==
    /\ a.cols = FixedCols
    /\ \A i \in 1..Min(a.rows, b.rows) :
          /\ a.v[i][1] = b.v[i][1]
          /\ \A j \in 2..FixedCols : WithinTenth(a.v[i][j], RMean(b.v[i]))

\* C18: when both ensembles have exactly one column and reconciliation returns, each
\* ensemble has exactly five columns, the first holding the original column and each
\* of the four added ones holding the row mean perturbed by at most a tenth of its
\* absolute value, not zero.
C18_FixedWidthSynthesized ==
    (out.reshaped /\ ~out.raised /\ pre_in.cols = 1 /\ post_in.cols = 1) =>
        /\ IsSynthesizedFrom(pre_data, pre_in)
        /\ IsSynthesizedFrom(post_data, post_in)

\* The ensemble of fewer columns, and the other one, before and after reshape_data
NarrowerIn == IF pre_in.cols < post_in.cols THEN pre_in ELSE post_in
NarrowerOut == IF pre_in.cols < post_in.cols THEN pre_data ELSE post_data

\* C19: when both the row counts and the column counts differ, the rows are truncated
\* first and the columns synthesized second: both results have min(row counts) rows
\* and max(column counts) columns, and every added column holds the row means of the
\* truncated narrower ensemble perturbed by at most a tenth.
C19_RowsThenCols ==
    (out.reshaped /\ pre_in.rows # post_in.rows /\ pre_in.cols # post_in.cols) =>
        LET rows == Min(pre_in.rows, post_in.rows)
            cols == Max(pre_in.cols, post_in.cols)
        IN  /\ ~out.raised
            /\ Shape(pre_data) = <<rows, cols>>
            /\ Shape(post_data) = <<rows, cols>>
            /\ \A i \in 1..rows : \A j \in (NarrowerIn.cols + 1)..cols :
                  WithinTenth(NarrowerOut.v[i][j], RMean(NarrowerIn.v[i]))

---------------------------------------------------------------------------
(* frontiers_utils.py: output directories                                    *)
(* A path is a pair <<base_dir, counter>>: counter 0 is base_dir itself and   *)
(* counter n is base_dir + "_" + str(n). A file system is a record of the     *)
(* paths that are directories, the paths that are files of another kind and   *)
(* whether the parent directory lets an entry be created in it.               *)

\* The last counter make_output_dir appends before it gives up
LastCounter == 99

Path(base_dir, counter) == <<base_dir, counter>>

\* Python's None, returned when no directory could be made
NoPath == <<>>

Exists(fs, path) == path \in fs.dirs \/ path \in fs.files

isdir(fs, path) == path \in fs.dirs

\* os.mkdir(path): raises OSError (ok = FALSE) when the path exists or the parent
\* does not let it be created, and makes the directory otherwise.
mkdir(fs, path) ==
    IF Exists(fs, path) \/ ~fs.writable
    THEN [ok |-> FALSE, fs |-> fs]
    ELSE [ok |-> TRUE, fs |-> [fs EXCEPT !.dirs = @ \cup {path}]]

try_next_output_dir(fs, path) == mkdir(fs, path)

\* The while loop of make_output_dir, entered with the given value of counter: the
\* counters are tried in order, an attempt that fails leaves the file system as it
\* was, and the first that succeeds ends the loop; past LastCounter the loop gives up.
NextFreeDir(fs, base_dir, counter) ==
    LET succeeding == {n \in (counter + 1)..LastCounter :
                          try_next_output_dir(fs, Path(base_dir, n)).ok}
    IN  IF succeeding = {} THEN [name |-> NoPath, fs |-> fs]
        ELSE LET first == CHOOSE n \in succeeding : \A m \in succeeding : n <= m
             IN  [name |-> Path(base_dir, first),
                  fs |-> try_next_output_dir(fs, Path(base_dir, first)).fs]

\* make_output_dir that takes an existing base_dir whatever use_existing says
make_output_dir_reusing(fs, base_dir, use_existing) ==
    LET made == mkdir(fs, Path(base_dir, 0))
    IN  IF made.ok THEN [name |-> Path(base_dir, 0), fs |-> made.fs]
        ELSE IF isdir(fs, Path(base_dir, 0)) THEN [name |-> Path(base_dir, 0), fs |-> fs]
        ELSE NextFreeDir(fs, base_dir, 0)

make_output_dir(fs, base_dir, use_existing) ==
    LET made == mkdir(fs, Path(base_dir, 0))
    IN  IF made.ok THEN [name |-> Path(base_dir, 0), fs |-> made.fs]
        ELSE IF use_existing /\ isdir(fs, Path(base_dir, 0))
        THEN [name |-> Path(base_dir, 0), fs |-> fs]
        ELSE NextFreeDir(fs, base_dir, 0)

\* Names below the last existing one that the model may leave free
MaxFree == 2

\* The directory every call of the model asks for
OutputBase == "output"

\* The file systems a run starts from: base_dir and its numbered names exist up to
\* some counter, except for some of the first ones, and base_dir may be a plain file.
Disks ==
    {[dirs |-> {Path(OutputBase, n) : n \in (0..(k - 1)) \ (free \cup plain)},
      files |-> {Path(OutputBase, n) : n \in plain \cap (0..(k - 1))},
      writable |-> w] :
        k \in 0..(LastCounter + 1), free \in SUBSET (0..MaxFree),
        plain \in {{}, {0}}, w \in BOOLEAN}

InitDirs ==
    /\ pre_data = Zeros(0, 0)
    /\ post_data = Zeros(0, 0)
    /\ pre_in = pre_data
    /\ post_in = post_data
    /\ ret = [op |-> "none", use_existing |-> FALSE, name |-> NoPath, before |-> NoPath]
    /\ out \in Disks
    /\ batch = NoBatch
    /\ spm_ti = NoInference

MakeOutputDirCall(use_existing) ==
    LET made == make_output_dir(out, OutputBase, use_existing)
    IN  /\ ret' = [op |-> "make_output_dir", use_existing |-> use_existing,
                   name |-> made.name, before |-> out]
        /\ out' = made.fs
        /\ UNCHANGED <<pre_data, post_data, pre_in, post_in, batch, spm_ti>>

\* make_output_dir(base_dir), as the conversion functions call it
MakeNewDirCall == MakeOutputDirCall(FALSE)

\* make_output_dir(base_dir, use_existing=True), as the analysis functions call it
UseExistingDirCall == MakeOutputDirCall(TRUE)

NextDirs == MakeNewDirCall \/ UseExistingDirCall

SpecDirs == InitDirs /\ [][NextDirs]_vars

\* The names make_output_dir tries for base_dir, in the order it tries them
Candidates == {Path(OutputBase, n) : n \in 0..LastCounter}

\* C25: a call of make_output_dir with use_existing false that returns a name has made
\* that directory, which did not exist before the call, and made nothing else; the
\* name is the first of base, base_1, ..., base_99 that did not exist, and such a name
\* is returned whenever the parent directory lets it be made. If all of them exist the
\* call returns nothing, and a call that returns nothing has made nothing. With
\* use_existing true and base already a directory the call returns base and makes
\* nothing.
C25_FirstFreeName ==
    ret.op = "make_output_dir" =>
        /\ ret.name # NoPath =>
              /\ ret.name \in Candidates
              /\ isdir(out, ret.name)
              /\ \A n \in 0..(ret.name[2] - 1) : Exists(ret.before, Path(OutputBase, n))
        /\ (ret.name # NoPath /\ ~ret.use_existing) =>
              /\ ~Exists(ret.before, ret.name)
              /\ out = [ret.before EXCEPT !.dirs = @ \cup {ret.name}]
        /\ (~ret.use_existing /\ ret.before.writable
                /\ \E p \in Candidates : ~Exists(ret.before, p)) => ret.name # NoPath
        /\ (\A p \in Candidates : Exists(ret.before, p)
                /\ ~(ret.use_existing /\ isdir(ret.before, Path(OutputBase, 0))))
              => ret.name = NoPath
        /\ ret.name = NoPath => out = ret.before
        /\ (ret.use_existing /\ isdir(ret.before, Path(OutputBase, 0))) =>
              /\ ret.name = Path(OutputBase, 0)
              /\ out = ret.before

\* A call with use_existing false skipped existing names, one of them base_dir itself,
\* and made a numbered directory
C25_Witness ==
    /\ ret.op = "make_output_dir"
    /\ ~ret.use_existing
    /\ ret.name # NoPath
    /\ ret.name[2] > 1
    /\ isdir(ret.before, Path(OutputBase, 0))

\* Every name is taken and the call returns nothing
C25_AllTaken ==
    /\ ret.op = "make_output_dir"
    /\ ~ret.use_existing
    /\ ret.name = NoPath
    /\ ret.before.writable

\* use_existing is true, base_dir is a directory and is returned
C25_Reused ==
    /\ ret.op = "make_output_dir"
    /\ ret.use_existing
    /\ ret.name = Path(OutputBase, 0)
    /\ out = ret.before

---------------------------------------------------------------------------
(* xlsx_csv_conversion.py                                                     *)
(* A measurement sheet is known by its number of measurement columns, which   *)
(* xlsx_to_pandas_df labels 1, 2, ..., n_cols after dropping column 0. The     *)
(* file system holds, besides the directories, the CSV files written: each    *)
(* a record of the file and of the column labels written to it, in order.     *)

MaxSheetCols == 6    \* measurement columns of a sheet
MaxPerSet == 2       \* measurements per pre set and per post set

\* The default of max_set
DefaultMaxSet == 8

MaxSetChoices == {1, 2, DefaultMaxSet}

\* The directories the caller passes as pre_output_dir and post_output_dir, each
\* joined with the name of the sheet
PreBase == "pre/sheet"
PostBase == "post/sheet"

\* _check_sets_before_conversion: n_cols / msmnts_per_full_set, which raises
\* ZeroDivisionError for an empty full set and ValueError for a quotient that is no
\* whole number
check_sets_before_conversion(n_cols, msmnts_per_pre_set, msmnts_per_post_set) ==
    LET msmnts_per_full_set == msmnts_per_pre_set + msmnts_per_post_set
    IN  IF msmnts_per_full_set = 0 THEN [raised |-> "ZeroDivisionError", sets |-> 0]
        ELSE IF n_cols % msmnts_per_full_set # 0 THEN [raised |-> "ValueError", sets |-> 0]
        ELSE [raised |-> "none", sets |-> n_cols \div msmnts_per_full_set]

\* The last set the loop "for s in range(1, sets + 1): if s > max_set: break" handles
LastSet(sets, max_set) == Min(sets, max_set)

\* pre_col_nums and post_col_nums of set s
pre_col_nums(s, job) ==
    [m \in 1..job.msmnts_per_pre_set |->
        (s - 1) * (job.msmnts_per_pre_set + job.msmnts_per_post_set) + m]

post_col_nums(s, job) ==
    [m \in 1..job.msmnts_per_post_set |->
        (s - 1) * (job.msmnts_per_pre_set + job.msmnts_per_post_set) + m
            + job.msmnts_per_pre_set]

\* The lists the loop of split_by_pre_post has appended to after set s
RECURSIVE PreColsUpTo(_, _)
PreColsUpTo(s, job) == IF s = 0 THEN <<>> ELSE PreColsUpTo(s - 1, job) \o pre_col_nums(s, job)

RECURSIVE PostColsUpTo(_, _)
PostColsUpTo(s, job) ==
    IF s = 0 THEN <<>> ELSE PostColsUpTo(s - 1, job) \o post_col_nums(s, job)

\* pre_col and post_col of set s in split_by_pre_post_and_set_using_first_msmt
pre_col(s, job) == (s - 1) * (job.msmnts_per_pre_set + job.msmnts_per_post_set) + 1

post_col(s, job) ==
    (s - 1) * (job.msmnts_per_pre_set + job.msmnts_per_post_set)
        + job.msmnts_per_pre_set + 1

\* One to_csv call: the file it writes to and the columns it is given
Selection(kind, dir, s, columns) == [kind |-> kind, dir |-> dir, s |-> s, columns |-> columns]

\* df.to_csv(file, columns=columns): KeyError for a label the sheet does not have;
\* otherwise the file is written, replacing a file of that name.
to_csv(fs, n_cols, sel) ==
    IF \E i \in 1..Len(sel.columns) : sel.columns[i] \notin 1..n_cols
    THEN [ok |-> FALSE, fs |-> fs]
    ELSE [ok |-> TRUE,
          fs |-> [fs EXCEPT !.csv =
                    {f \in @ : <<f.kind, f.dir, f.s>> # <<sel.kind, sel.dir, sel.s>>}
                        \cup {sel}]]

\* The to_csv calls of a list, in order, up to the first that raises
RECURSIVE WriteAll(_, _, _, _)
WriteAll(fs, n_cols, sels, done) ==
    IF done = Len(sels) THEN [raised |-> "none", fs |-> fs, selected |-> sels]
    ELSE LET w == to_csv(fs, n_cols, sels[done + 1])
         IN  IF w.ok THEN WriteAll(w.fs, n_cols, sels, done + 1)
             ELSE [raised |-> "KeyError", fs |-> fs,
                   selected |-> SubSeq(sels, 1, done + 1)]

\* What a conversion function does when the check raises: the bare except returns
Refused(fs) == [raised |-> "none", fs |-> fs, selected |-> <<>>]

split_by_pre_post(fs, job) ==
    LET check == check_sets_before_conversion(job.n_cols, job.msmnts_per_pre_set,
                                              job.msmnts_per_post_set)
        last == LastSet(check.sets, job.max_set)
    IN  IF check.raised # "none" THEN Refused(fs)
        ELSE WriteAll(fs, job.n_cols,
                      <<Selection("pre", Path("pre", 0), 0, PreColsUpTo(last, job)),
                        Selection("post", Path("post", 0), 0, PostColsUpTo(last, job))>>, 0)

\* The to_csv calls of the loop of split_by_pre_post_and_set up to set s
RECURSIVE SelectionsBySet(_, _, _, _)
SelectionsBySet(s, job, pre_output_dir, post_output_dir) ==
    IF s = 0 THEN <<>>
    ELSE SelectionsBySet(s - 1, job, pre_output_dir, post_output_dir)
            \o <<Selection("pre", pre_output_dir, s, pre_col_nums(s, job)),
                 Selection("post", post_output_dir, s, post_col_nums(s, job))>>

\* split_by_pre_post_and_set that makes its directories before it checks the sheet
split_by_set_dirs_first(fs, job) ==
    LET pre_made == make_output_dir(fs, PreBase, FALSE)
        post_made == make_output_dir(pre_made.fs, PostBase, FALSE)
        check == check_sets_before_conversion(job.n_cols, job.msmnts_per_pre_set,
                                              job.msmnts_per_post_set)
    IN  IF check.raised # "none" THEN Refused(post_made.fs)
        ELSE WriteAll(post_made.fs, job.n_cols,
                      SelectionsBySet(LastSet(check.sets, job.max_set), job,
                                      pre_made.name, post_made.name), 0)

\* None + "/" raises TypeError when make_output_dir returned nothing
split_by_pre_post_and_set(fs, job) ==
    LET check == check_sets_before_conversion(job.n_cols, job.msmnts_per_pre_set,
                                              job.msmnts_per_post_set)
        pre_made == make_output_dir(fs, PreBase, FALSE)
        post_made == make_output_dir(pre_made.fs, PostBase, FALSE)
    IN  IF check.raised # "none" THEN Refused(fs)
        ELSE IF pre_made.name = NoPath
        THEN [raised |-> "TypeError", fs |-> pre_made.fs, selected |-> <<>>]
        ELSE IF post_made.name = NoPath
        THEN [raised |-> "TypeError", fs |-> post_made.fs, selected |-> <<>>]
        ELSE WriteAll(post_made.fs, job.n_cols,
                      SelectionsBySet(LastSet(check.sets, job.max_set), job,
                                      pre_made.name, post_made.name), 0)

split_by_pre_post_and_set_using_first_msmt(fs, job) ==
    LET check == check_sets_before_conversion(job.n_cols, job.msmnts_per_pre_set,
                                              job.msmnts_per_post_set)
        last == LastSet(check.sets, job.max_set)
    IN  IF check.raised # "none" THEN Refused(fs)
        ELSE WriteAll(fs, job.n_cols,
                      <<Selection("pre", Path("pre", 0), 0, [s \in 1..last |-> pre_col(s, job)]),
                        Selection("post", Path("post", 0), 0,
                                  [s \in 1..last |-> post_col(s, job)])>>, 0)

\* The sheets and arguments of the model
Jobs ==
    [n_cols : 0..MaxSheetCols, msmnts_per_pre_set : 0..MaxPerSet,
     msmnts_per_post_set : 0..MaxPerSet, max_set : MaxSetChoices]

\* The file systems a conversion starts from: the directories named after the sheet
\* may exist from an earlier conversion, and no CSV file is written yet.
ConversionDisks ==
    {[dirs |-> {Path(PreBase, n) : n \in 0..(j - 1)} \cup {Path(PostBase, n) : n \in 0..(k - 1)},
      files |-> {}, writable |-> TRUE, csv |-> {}] : j \in 0..1, k \in 0..2}

InitConvert ==
    /\ pre_data = Zeros(0, 0)
    /\ post_data = Zeros(0, 0)
    /\ pre_in = pre_data
    /\ post_in = post_data
    /\ ret = [op |-> "none", raised |-> "none", selected |-> <<>>, before |-> NoPath]
    /\ out \in ConversionDisks
    /\ batch \in Jobs
    /\ spm_ti = NoInference

\* One call of a conversion function on the sheet
Convert(op, r) ==
    /\ ret.op = "none"
    /\ ret' = [op |-> op, raised |-> r.raised, selected |-> r.selected, before |-> out]
    /\ out' = r.fs
    /\ UNCHANGED <<pre_data, post_data, pre_in, post_in, batch, spm_ti>>

SplitByPrePostCall == Convert("split_by_pre_post", split_by_pre_post(out, batch))

SplitByPrePostAndSetCall ==
    Convert("split_by_pre_post_and_set", split_by_pre_post_and_set(out, batch))

SplitUsingFirstMsmtCall ==
    Convert("split_by_pre_post_and_set_using_first_msmt",
            split_by_pre_post_and_set_using_first_msmt(out, batch))

NextConvert == SplitByPrePostCall \/ SplitByPrePostAndSetCall \/ SplitUsingFirstMsmtCall

SpecConvert == InitConvert /\ [][NextConvert]_vars

\* The number of measurement columns is a whole multiple of the full set
IsMultiple(n_cols, full_set) == \E sets \in 0..n_cols : n_cols = sets * full_set

FullSet == batch.msmnts_per_pre_set + batch.msmnts_per_post_set

\* C23: when the number of measurement columns is not a whole multiple of the pre
\* plus the post measurements per set, each conversion function returns, without
\* raising, having written no CSV file and made no directory.
C23_RefusedWithoutOutput ==
    (ret.op # "none" /\ ~IsMultiple(batch.n_cols, FullSet)) =>
        /\ ret.raised = "none"
        /\ ret.selected = <<>>
        /\ out = ret.before

\* split_by_pre_post_and_set refused a sheet of a column too many, with directories
\* of the sheet's name in place from an earlier conversion
C23_Witness ==
    /\ ret.op = "split_by_pre_post_and_set"
    /\ FullSet > 0
    /\ batch.n_cols % FullSet # 0
    /\ out.dirs # {}

\* The set a column of the sheet belongs to, and whether it is one of the set's pre
\* measurements (the first msmnts_per_pre_set columns of the set) or post measurements
SetOf(col) == ((col - 1) \div FullSet) + 1
IsPre(col) == (col - 1) % FullSet < batch.msmnts_per_pre_set
IsPost(col) == ~IsPre(col)

\* The pre and the post columns of set s, as the sheet lays them out
PreColumnsOf(s) == {col \in 1..batch.n_cols : SetOf(col) = s /\ IsPre(col)}
PostColumnsOf(s) == {col \in 1..batch.n_cols : SetOf(col) = s /\ IsPost(col)}

\* The sets a conversion of the sheet handles
SetsConverted == 1..Min(batch.n_cols \div FullSet, batch.max_set)

Elements(seq) == {seq[i] : i \in 1..Len(seq)}
Increasing(seq) == \A i \in 1..(Len(seq) - 1) : seq[i] < seq[i + 1]

\* The columns the last call selected for its pre files and for its post files
SelectedAs(kind) ==
    UNION {Elements(ret.selected[i].columns) :
              i \in {n \in 1..Len(ret.selected) : ret.selected[n].kind = kind}}

\* A conversion function was called on a sheet whose columns are a whole number of sets
Converted(op) == ret.op = op /\ FullSet > 0 /\ batch.n_cols % FullSet = 0

\* The selection of the given kind for set s (s = 0: the one file for all sets)
SelectionFor(kind, s) ==
    {ret.selected[i].columns :
        i \in {n \in 1..Len(ret.selected) :
                  ret.selected[n].kind = kind /\ ret.selected[n].s = s}}

\* The one file per kind holds exactly the given columns, in increasing order
ClumpedExactly(kind, columns) ==
    \E seq \in SelectionFor(kind, 0) :
        /\ SelectionFor(kind, 0) = {seq}
        /\ Elements(seq) = columns
        /\ Increasing(seq)

\* The one file per kind holds, for every converted set in order, the first column of
\* the set's columns of that kind
FirstOfEach(kind) ==
    \E seq \in SelectionFor(kind, 0) :
        /\ SelectionFor(kind, 0) = {seq}
        /\ Len(seq) = Cardinality(SetsConverted)
        /\ \A s \in SetsConverted :
              LET columns == IF kind = "pre" THEN PreColumnsOf(s) ELSE PostColumnsOf(s)
              IN  /\ seq[s] \in columns
                  /\ \A col \in columns : seq[s] <= col

\* C24: on a sheet of a whole number of sets, split_by_pre_post selects for its pre
\* file exactly the pre columns (s-1)*F + 1 .. (s-1)*F + P of every set s from 1 to
\* min(sets, max_set) and for its post file exactly the post columns (s-1)*F + P + 1
\* .. s*F of those sets; split_by_pre_post_and_set selects them set by set; the
\* first-measurement variant selects exactly the first pre and the first post column
\* of each of those sets; no column is selected as both pre and post and no column of
\* a set above max_set is selected.
C24_ColumnsSelected ==
    /\ Converted("split_by_pre_post") =>
          /\ ClumpedExactly("pre", UNION {PreColumnsOf(s) : s \in SetsConverted})
          /\ ClumpedExactly("post", UNION {PostColumnsOf(s) : s \in SetsConverted})
    /\ (Converted("split_by_pre_post_and_set") /\ ret.raised = "none") =>
          /\ Len(ret.selected) = 2 * Cardinality(SetsConverted)
          /\ \A s \in SetsConverted :
                /\ \E seq \in SelectionFor("pre", s) :
                      /\ SelectionFor("pre", s) = {seq}
                      /\ Elements(seq) = PreColumnsOf(s)
                      /\ Increasing(seq)
                /\ \E seq \in SelectionFor("post", s) :
                      /\ SelectionFor("post", s) = {seq}
                      /\ Elements(seq) = PostColumnsOf(s)
                      /\ Increasing(seq)
    /\ Converted("split_by_pre_post_and_set_using_first_msmt") =>
          /\ FirstOfEach("pre")
          /\ ret.raised = "none" => FirstOfEach("post")
    /\ (ret.op # "none" /\ FullSet > 0 /\ batch.n_cols % FullSet = 0) =>
          /\ SelectedAs("pre") \cap SelectedAs("post") = {}
          /\ \A col \in SelectedAs("pre") \cup SelectedAs("post") :
                SetOf(col) \in SetsConverted

\* C24 for sheets that have at least one pre and one post measurement per set
C24_ColumnsSelectedOfFullSets ==
    (batch.msmnts_per_pre_set >= 1 /\ batch.msmnts_per_post_set >= 1) =>
        C24_ColumnsSelected

\* The first-measurement variant converted the first of several sets of a sheet that
\* has two pre and one post measurement per set
C24_Witness ==
    /\ Converted("split_by_pre_post_and_set_using_first_msmt")
    /\ batch.msmnts_per_pre_set = 2
    /\ batch.msmnts_per_post_set = 1
    /\ batch.max_set < batch.n_cols \div FullSet
    /\ Cardinality(out.csv) = 2

\* The first-measurement variant was called on a sheet without pre measurements and
\* wrote the same columns to its pre and to its post file
C24_SamePreAndPost ==
    /\ Converted("split_by_pre_post_and_set_using_first_msmt")
    /\ batch.msmnts_per_pre_set = 0
    /\ SelectedAs("pre") # {}
    /\ SelectedAs("pre") = SelectedAs("post")

---------------------------------------------------------------------------
(* tmg_stats.py: the statistics of the TMG parameters                         *)

TMG_PARAM_NAMES ==
    <<"Dm:", "Td:", "Tc:", "Ts:", "Tr:", "P1:", "P2:", "P3:",
      "RDD Max:", "RDD Min:", "RDD Peak to Peak:",
      "RDD Max Time:", "RDD Min Time:", "Max to Min Time:">>

TMG_STAT_NAMES ==
    <<"base-avg", "pot-avg", "base-sample-std", "pot-sample-std",
      "t-statistic", "t-test-p-value">>

\* The arrays _compute_stats_for_tmg_params passes to np.column_stack, in order
StackedStats ==
    <<"pre_avg", "post_avg", "percent_change", "pre_sd", "post_sd",
      "t_statistic", "p_value">>

MaxMsmts == 3    \* measurements (columns) of a parameter matrix

\* The parameter matrices np.loadtxt reads: one row per TMG parameter
ParamMatrices ==
    {Loaded(Len(TMG_PARAM_NAMES), c, s) : c \in 1..MaxMsmts, s \in Patterns}

\* A reduction along axis 1 (np.average, np.std): one value per row; the model keeps
\* the length of the array.
AlongAxis1(params) == params.rows

\* np.column_stack: the shape of the array stacked from one-dimensional arrays of the
\* given lengths, which must agree
column_stack(lengths) ==
    IF \E i \in 1..Len(lengths) : lengths[i] # lengths[1]
    THEN [raised |-> "ValueError", shape |-> <<0, 0>>]
    ELSE [raised |-> "none", shape |-> <<lengths[1], Len(lengths)>>]

\* pd.DataFrame(data, index=index, columns=columns): ValueError ("Shape of passed
\* values is ..., indices imply ...") unless the data has one row per index label and
\* one column per column label
DataFrame(shape, index, columns) ==
    IF shape # <<Len(index), Len(columns)>>
    THEN [raised |-> "ValueError", index |-> <<>>, columns |-> <<>>]
    ELSE [raised |-> "none", index |-> index, columns |-> columns]

\* ttest_rel(a, b, axis=1) raises ValueError for arrays of unequal shape; the stack
\* and the table follow, and to_csv is reached only with a table.
compute_stats_for_tmg_params(pre_params, post_params) ==
    LET param_names == TMG_PARAM_NAMES
        stats_names == TMG_STAT_NAMES
        stacked == column_stack([i \in 1..Len(StackedStats) |->
                        IF StackedStats[i] \in {"pre_avg", "pre_sd"}
                        THEN AlongAxis1(pre_params)
                        ELSE AlongAxis1(post_params)])
        df_stats == DataFrame(stacked.shape, param_names, stats_names)
    IN  IF Shape(pre_params) # Shape(post_params)
        THEN [raised |-> "ValueError", line |-> 216, written |-> {}]
        ELSE IF stacked.raised # "none"
        THEN [raised |-> stacked.raised, line |-> 221, written |-> {}]
        ELSE IF df_stats.raised # "none"
        THEN [raised |-> df_stats.raised, line |-> 221, written |-> {}]
        ELSE [raised |-> "none", line |-> 226,
              written |-> {[index |-> df_stats.index, columns |-> df_stats.columns]}]

InitStats ==
    /\ pre_data \in ParamMatrices
    /\ post_data \in ParamMatrices
    /\ pre_in = pre_data
    /\ post_in = post_data
    /\ ret = [op |-> "none", raised |-> "none", line |-> 0]
    /\ out = [csv |-> {}]
    /\ batch = NoBatch
    /\ spm_ti = NoInference

ComputeStatsCall ==
    /\ ret.op = "none"
    /\ LET r == compute_stats_for_tmg_params(pre_data, post_data)
       IN  /\ ret' = [op |-> "_compute_stats_for_tmg_params", raised |-> r.raised,
                      line |-> r.line]
           /\ out' = [csv |-> out.csv \cup r.written]
    /\ UNCHANGED <<pre_data, post_data, pre_in, post_in, batch, spm_ti>>

NextStats == ComputeStatsCall

SpecStats == InitStats /\ [][NextStats]_vars

\* C26: for every pair of parameter matrices, _compute_stats_for_tmg_params builds,
\* without a shape error, and writes a table of one row per name of TMG_PARAM_NAMES
\* and one column per name of TMG_STAT_NAMES: as many statistic columns are computed
\* as there are statistic names.
C26_TableWritten ==
    (ret.op = "_compute_stats_for_tmg_params" /\ Shape(pre_data) = Shape(post_data)) =>
        /\ ret.raised = "none"
        /\ Len(StackedStats) = Len(TMG_STAT_NAMES)
        /\ out.csv = {[index |-> TMG_PARAM_NAMES, columns |-> TMG_STAT_NAMES]}

\* What the function does: pd.DataFrame raises ValueError for every pair of matrices
\* of equal shape, and no table is written.
C26_ShapeError ==
    ret.op = "_compute_stats_for_tmg_params" =>
        /\ ret.raised = "ValueError"
        /\ out.csv = {}

=============================================================================
